---- MODULE Spec2Model ----
(***************************************************************************)
(* A model of the template mapping engine of src/agent/main.py:            *)
(*   excel_to_json                            (the Tabular Normalizer)     *)
(*   create_simplified_schema / generate_solution_from_template_and_pdfs   *)
(*                                            (the Extraction Adapter)     *)
(*   _generate_random_placeholder             (the placeholder fallback)   *)
(*   json_to_excel_template                   (the Template Rehydrator)    *)
(*                                                                         *)
(* Representation.                                                         *)
(*   A Python str is a sequence of one-character strings, so that strip,   *)
(*   lower, replace and float() are computed character by character.       *)
(*   A number is an integer count of hundredths (round(_, 2) is the finest *)
(*   grain the program produces): 1.05 is 105, 15 is 1500.                 *)
(*   A cell value / JSON scalar is a record [k, s, n]: None, a str or a    *)
(*   number.  A Python dict is a sequence of <<key, value>> pairs in       *)
(*   insertion order with unique keys.                                     *)
(***************************************************************************)
EXTENDS Integers, Sequences, FiniteSets, TLC

(***************************************************************************)
(* Bounds of the model.                                                    *)
(***************************************************************************)
\* rows of a worksheet (ws.max_row)
MaxRows == 3
\* columns of a worksheet (ws.max_column)
MaxCols == 3
\* entries of a record handed to the adapter or to the rehydrator
MaxRecRows == 2
\* items of the list the model returns under "financial_data"
MaxItems == 2

(***************************************************************************)
(* Program constants.                                                      *)
(***************************************************************************)
\* round(x, 2): numbers are counted in hundredths
Scale == 100
\* random.uniform(0, 1000000)
RandomLow == 0
RandomHigh == 1000000
\* range(header_row_idx + 1, min(header_row_idx + 10, ws.max_row + 1))
HeaderScan == 10

(***************************************************************************)
(* Python str operations, on sequences of characters.                      *)
(***************************************************************************)
Digits == <<"0", "1", "2", "3", "4", "5", "6", "7", "8", "9">>

UpperAlpha == <<"A", "B", "C", "D", "E", "F", "G", "H", "I", "J", "K", "L", "M",
                "N", "O", "P", "Q", "R", "S", "T", "U", "V", "W", "X", "Y", "Z">>

LowerAlpha == <<"a", "b", "c", "d", "e", "f", "g", "h", "i", "j", "k", "l", "m",
                "n", "o", "p", "q", "r", "s", "t", "u", "v", "w", "x", "y", "z">>

IsSpace(ch) == ch = " "

IsDigit(ch) == \E i \in 1..10 : Digits[i] = ch

DigitVal(ch) == (CHOOSE i \in 1..10 : Digits[i] = ch) - 1

LowerChar(ch) ==
    IF \E i \in 1..26 : UpperAlpha[i] = ch
    THEN LowerAlpha[CHOOSE i \in 1..26 : UpperAlpha[i] = ch]
    ELSE ch

\* str.lower()
lower(s) == [i \in 1..Len(s) |-> LowerChar(s[i])]

RECURSIVE lstrip(_)
lstrip(s) == IF s # <<>> /\ IsSpace(Head(s)) THEN lstrip(Tail(s)) ELSE s

RECURSIVE rstrip(_)
rstrip(s) ==
    IF s # <<>> /\ IsSpace(s[Len(s)]) THEN rstrip(SubSeq(s, 1, Len(s) - 1)) ELSE s

\* str.strip()
strip(s) == rstrip(lstrip(s))

\* str.replace('.0', ''): every non-overlapping occurrence, left to right
RECURSIVE replace_dot0(_)
replace_dot0(s) ==
    IF s = <<>> THEN <<>>
    ELSE IF Len(s) >= 2 /\ s[1] = "." /\ s[2] = "0"
         THEN replace_dot0(SubSeq(s, 3, Len(s)))
         ELSE <<Head(s)>> \o replace_dot0(Tail(s))

\* the decimal digits of a natural number
RECURSIVE NatStr(_)
NatStr(m) ==
    IF m < 10 THEN <<Digits[m + 1]>>
    ELSE NatStr(m \div 10) \o <<Digits[(m % 10) + 1]>>

\* str(int(v)) of an integer-valued number of hundredths
IntStr(n) == NatStr(n \div Scale)

\* str(float(v)): the shortest decimal, with at least one fractional digit
FloatStr(n) ==
    LET whole == n \div Scale
        frac  == n % Scale
    IN NatStr(whole) \o <<".">> \o
       (IF frac % 10 = 0 THEN <<Digits[(frac \div 10) + 1]>>
        ELSE <<Digits[(frac \div 10) + 1], Digits[(frac % 10) + 1]>>)

\* the value of a run of digits
RECURSIVE DigitsVal(_)
DigitsVal(s) ==
    IF s = <<>> THEN 0
    ELSE 10 * DigitsVal(SubSeq(s, 1, Len(s) - 1)) + DigitVal(s[Len(s)])

AllDigits(s) == \A i \in 1..Len(s) : IsDigit(s[i])

DotAt(s) == IF \E i \in 1..Len(s) : s[i] = "."
            THEN CHOOSE i \in 1..Len(s) : s[i] = "." /\ \A j \in 1..(i - 1) : s[j] # "."
            ELSE 0

\* float(s) for a str: surrounding blanks are ignored; the accepted texts are
\* digits with at most one '.', and at most two fractional digits are in the
\* model.  Anything else raises ValueError (ok = FALSE).
ParseFloat(s) ==
    LET t == strip(s)
        d == DotAt(t)
        ip == IF d = 0 THEN t ELSE SubSeq(t, 1, d - 1)
        fp == IF d = 0 THEN <<>> ELSE SubSeq(t, d + 1, Len(t))
        good == /\ AllDigits(ip) /\ AllDigits(fp)
                /\ Len(ip) + Len(fp) > 0
                /\ Len(fp) <= 2
        fv == IF Len(fp) = 0 THEN 0
              ELSE IF Len(fp) = 1 THEN 10 * DigitVal(fp[1])
              ELSE 10 * DigitVal(fp[1]) + DigitVal(fp[2])
    IN IF good THEN [ok |-> TRUE, n |-> Scale * DigitsVal(ip) + fv]
       ELSE [ok |-> FALSE, n |-> 0]

(***************************************************************************)
(* Scalars: None, a str, a number.                                         *)
(***************************************************************************)
None == [k |-> "none", s |-> <<>>, n |-> 0]

Str(s) == [k |-> "str", s |-> s, n |-> 0]

Num(n) == [k |-> "num", s |-> <<>>, n |-> n]

IsNone(v) == v.k = "none"

\* str(value) of a worksheet cell: openpyxl yields an int for a number stored
\* without a fractional part, a float otherwise
PyStr(v) ==
    IF v.k = "str" THEN v.s
    ELSE IF v.k = "num" THEN (IF v.n % Scale = 0 THEN IntStr(v.n) ELSE FloatStr(v.n))
    ELSE <<"N", "o", "n", "e">>

(***************************************************************************)
(* Python dicts: sequences of <<key, value>> in insertion order.           *)
(***************************************************************************)
Keys(d) == {d[i][1] : i \in 1..Len(d)}

Has(d, key) == \E i \in 1..Len(d) : d[i][1] = key

Get(d, key) == d[CHOOSE i \in 1..Len(d) : d[i][1] = key][2]

\* d[key] = val: an existing key keeps its place, a new key is appended
Put(d, key, val) ==
    IF Has(d, key)
    THEN [i \in 1..Len(d) |-> IF d[i][1] = key THEN <<key, val>> ELSE d[i]]
    ELSE Append(d, <<key, val>>)

\* a row of a record: a column dict, or a value that is not a dict (None)
DictRow(d) == [isdict |-> TRUE, d |-> d]

NoneRow == [isdict |-> FALSE, d |-> <<>>]

RowNames(rec) == {rec[i][1] : i \in 1..Len(rec)}

ColNames(row) == IF row.isdict THEN Keys(row.d) ELSE {}

(***************************************************************************)
(* State.                                                                  *)
(*  The Extraction Adapter (one call of                                    *)
(*  generate_solution_from_template_and_pdfs):                             *)
(*    template_json  the record passed in                                  *)
(*    env            GOOGLE_API_KEY set, GENAI_AVAILABLE, pdf_data truthy  *)
(*    pc             "start", "request" (the model call is in flight),     *)
(*                   "done"                                                *)
(*    calls          number of client.models.generate_content calls made   *)
(*    json_schema    the response schema built for the call                *)
(*    response       the outcome of the model call                         *)
(*    generated      the record returned                                   *)
(*    path           "none", "placeholder" or "reconciled": which return   *)
(*                   statement produced it                                 *)
(*  The Normalizer and the Rehydrator:                                     *)
(*    ws             the template worksheet                                *)
(*    normalized     the result of excel_to_json(ws)                       *)
(*    json_data      the record passed to json_to_excel_template           *)
(*    json_is_mapping  isinstance(json_data, dict); when FALSE json_data   *)
(*                   holds the items of the list passed instead            *)
(*    out_ws         the cells of the saved workbook                       *)
(*    written        the cells assigned by line 270                        *)
(*    set_order      the order in which that run iterated the set          *)
(*                   json_col_names                                        *)
(*    hdr_row        header_row_idx of that run, 0 while it is None        *)
(*    name_col       row_name_col of that run, 0 while it is not set       *)
(*    gpc            "template", "normalized", "failed" (excel_to_json     *)
(*                   raised), "filled" (a record is at hand), "copied"     *)
(*                   (the template file was copied), "saved" (the filled   *)
(*                   workbook was saved)                                   *)
(*  The server and the job:                                                *)
(*    docs           the documents of extraction_requests, by id           *)
(*    blobs          the names of the blobs in the bucket                  *)
(*    epc            by id, the position of the /api/extract call that     *)
(*                   created the document: "none", "created", "uploaded",  *)
(*                   "done", "failed"                                      *)
(*    jpc            by run, the position of process_request: "idle",      *)
(*                   "start", "read", "processing", "template", "pdfs",    *)
(*                   "converted", "uploaded", "except", "exited"           *)
(*    jrid           by run, its REQUEST_ID                                *)
(*    jdata          by run, whether request_data, the document as read at *)
(*                   line 545, holds the blob paths                        *)
(*    jerr           by run, the text of the exception caught at line 637  *)
(*    jexit          by run, the exit code of the process, -1 while it     *)
(*                   runs                                                  *)
(*    jupd           by run, the outcome of the update of lines 643-648:   *)
(*                   "none", "ok", "raised"                                *)
(*    reply          the last response of download_output                  *)
(***************************************************************************)
VARIABLES template_json, env, pc, calls, json_schema, response, generated, path,
          ws, normalized, json_data, json_is_mapping, out_ws, written, set_order,
          hdr_row, name_col, gpc,
          docs, blobs, epc, jpc, jrid, jdata, jerr, jexit, jupd, reply

adapter_vars == <<template_json, env, pc, calls, json_schema, response, generated, path>>

grid_vars == <<ws, normalized, json_data, json_is_mapping, out_ws, written, set_order,
          hdr_row, name_col, gpc>>

service_vars == <<docs, blobs, epc, jpc, jrid, jdata, jerr, jexit, jupd, reply>>

vars == <<template_json, env, pc, calls, json_schema, response, generated, path,
          ws, normalized, json_data, json_is_mapping, out_ws, written, set_order,
          hdr_row, name_col, gpc,
          docs, blobs, epc, jpc, jrid, jdata, jerr, jexit, jupd, reply>>

(***************************************************************************)
(* _generate_random_placeholder.  rnd[i][j] is the value                   *)
(* round(random.uniform(0, 1000000), 2) drawn for column j of row i.       *)
(***************************************************************************)
RandomDraws == {RandomLow * Scale, 15075, RandomHigh * Scale}

\* line 463 without its test: every cell is drawn afresh
generate_random_placeholder_fill_all(t, rnd) ==
    [i \in 1..Len(t) |->
        IF ~t[i][2].isdict THEN t[i]
        ELSE <<t[i][1],
               DictRow([j \in 1..Len(t[i][2].d) |->
                          <<t[i][2].d[j][1], Num(rnd[i][j])>>])>>]

\* line 458 left out: a row that is no dict is not copied
generate_random_placeholder_skip_scalar(t, rnd) ==
    LET keep == SelectSeq([i \in 1..Len(t) |-> <<i, t[i]>>], LAMBDA e : e[2][2].isdict)
    IN [k \in 1..Len(keep) |->
           LET i == keep[k][1]
           IN <<t[i][1],
                DictRow([j \in 1..Len(t[i][2].d) |->
                           <<t[i][2].d[j][1],
                             IF IsNone(t[i][2].d[j][2]) THEN Num(rnd[i][j])
                             ELSE t[i][2].d[j][2]>>])>>]

\* lines 455-470
generate_random_placeholder(t, rnd) ==
    [i \in 1..Len(t) |->
        IF ~t[i][2].isdict THEN t[i]
        ELSE <<t[i][1],
               DictRow([j \in 1..Len(t[i][2].d) |->
                          <<t[i][2].d[j][1],
                            IF IsNone(t[i][2].d[j][2]) THEN Num(rnd[i][j])
                            ELSE t[i][2].d[j][2]>>])>>]

(***************************************************************************)
(* create_simplified_schema.  The schema is kept as: open (the fallback    *)
(* {"type": "OBJECT", "properties": {}, "nullable": True}), root (the      *)
(* property names of the root object), item (those of a list item),        *)
(* values (col_properties, in insertion order) and required                *)
(* (col_required).                                                         *)
(***************************************************************************)
pFinancialData == <<"f", "i", "n", "a", "n", "c", "i", "a", "l", "_", "d", "a", "t", "a">>
pRowName == <<"r", "o", "w", "_", "n", "a", "m", "e">>
pValues == <<"v", "a", "l", "u", "e", "s">>

\* {"type": "NUMBER", "nullable": True}
NullableNumber == [type |-> "NUMBER", nullable |-> TRUE]

Schema(open, root, item, values, required) ==
    [open |-> open, root |-> root, item |-> item, values |-> values, required |-> required]

\* line 307
OpenSchema == Schema(TRUE, {}, {}, <<>>, <<>>)

NoSchema == Schema(FALSE, {}, {}, <<>>, <<>>)

\* lines 293-303 taking the first entry, a dict or not
first_dict_is_first_entry(t) == IF t # <<>> /\ t[1][2].isdict THEN 1 ELSE 0

\* lines 293-303: the first entry that is a dict; 0 when there is none
first_dict(t) ==
    LET S == {i \in 1..Len(t) : t[i][2].isdict}
    IN IF S = {} THEN 0 ELSE CHOOSE i \in S : \A j \in S : i <= j

\* lines 289-339
create_simplified_schema(t) ==
    IF first_dict(t) = 0 THEN OpenSchema
    ELSE LET d == t[first_dict(t)][2].d
         IN Schema(FALSE, {pFinancialData}, {pRowName, pValues},
                   [j \in 1..Len(d) |-> <<d[j][1], NullableNumber>>],
                   [j \in 1..Len(d) |-> d[j][1]])

(***************************************************************************)
(* The model call's outcomes.  kind:                                       *)
(*   "raise"      generate_content raised                                  *)
(*   "empty"      response.text is empty or None                           *)
(*   "invalid"    json.loads(response.text) raises                         *)
(*   "nonobject"  the JSON value is not an object (.get raises)            *)
(*   "object"     a JSON object; haskey: it has "financial_data";          *)
(*                islist: that value is a list (iterating null raises);    *)
(*                items: the list.  An item is an object or not; name is   *)
(*                item.get("row_name") (None when absent), values is       *)
(*                item.get("values") (None when absent or null).           *)
(***************************************************************************)
Item(isobj, name, values) == [isobj |-> isobj, name |-> name, values |-> values]

Response(kind, haskey, islist, items) ==
    [kind |-> kind, haskey |-> haskey, islist |-> islist, items |-> items]

NoResponse == Response("none", FALSE, FALSE, <<>>)

\* rows_list = generated_data_raw.get("financial_data", [])
rows_list(resp) == IF resp.haskey THEN resp.items ELSE <<>>

\* row_map = {item.get("row_name"): item.get("values") for item in rows_list}
RECURSIVE row_map(_)
row_map(items) ==
    IF items = <<>> THEN <<>>
    ELSE LET it == items[Len(items)]
         IN Put(row_map(SubSeq(items, 1, Len(items) - 1)), it.name, it.values)

\* line 434 copying the template row instead of blanking it
null_row_keep_template(row) == row

null_row(row) ==
    IF row.isdict
    THEN DictRow([j \in 1..Len(row.d) |-> <<row.d[j][1], None>>])
    ELSE NoneRow

\* lines 427-436, iterating something else than template_json.keys()
reconcile_over_row_map(t, rm) ==
    [i \in 1..Len(rm) |-> <<rm[i][1].s, rm[i][2]>>]

\* line 428 matching names with case and surrounding blanks ignored
reconcile_normalized_names(t, rm) ==
    [i \in 1..Len(t) |->
        LET hits == {k \in 1..Len(rm) :
                        /\ rm[k][1].k = "str"
                        /\ lower(strip(rm[k][1].s)) = lower(strip(t[i][1]))}
        IN <<t[i][1],
             IF hits # {} THEN rm[CHOOSE k \in hits : \A j \in hits : j <= k][2]
             ELSE null_row(t[i][2])>>]

\* lines 427-436: the loop over template_json.keys()
reconcile(t, rm) ==
    [i \in 1..Len(t) |->
        <<t[i][1],
          IF Has(rm, Str(t[i][1])) THEN Get(rm, Str(t[i][1]))
          ELSE null_row(t[i][2])>>]

\* does the try block (lines 416-439) raise on this response?
parse_raises(resp) ==
    \/ resp.kind \in {"invalid", "nonobject"}
    \/ resp.kind = "object" /\ resp.haskey /\ ~resp.islist
    \/ resp.kind = "object" /\ resp.haskey /\ resp.islist
         /\ \E i \in 1..Len(resp.items) : ~resp.items[i].isobj

\* line 416 without its else branch: an empty body is reconciled as no rows
use_placeholder_empty_reconciled(resp) ==
    \/ resp.kind = "raise"
    \/ parse_raises(resp)

\* lines 440-449 in place of line 423's default
use_placeholder_no_default(resp) ==
    \/ resp.kind \in {"raise", "empty"}
    \/ parse_raises(resp)
    \/ resp.kind = "object" /\ ~resp.haskey

\* which responses end in _generate_random_placeholder (lines 440-449)
use_placeholder(resp) ==
    \/ resp.kind \in {"raise", "empty"}
    \/ parse_raises(resp)

(***************************************************************************)
(* The records and responses the adapter is run on.                        *)
(***************************************************************************)
nA == <<"A">>
nB == <<"B">>
na == <<"a">>
nAsp == <<"A", " ">>
c2023 == <<"2", "0", "2", "3">>
c2024 == <<"2", "0", "2", "4">>

\* columns of a row of a record handed to the adapter
MaxRecCols == 2

\* dicts of at most max entries, in every insertion order, keys distinct
Dicts(keys, vals, max) ==
    UNION {{d \in [1..m -> keys \X vals] :
               \A i, j \in 1..m : i # j => d[i][1] # d[j][1]} : m \in 0..max}

TemplateCells == {None, Num(100 * Scale)}

TemplateRows ==
    {DictRow(d) : d \in {e \in Dicts({c2023, c2024}, TemplateCells, MaxRecCols) :
                            Len(e) = 2 => e[1][1] = c2023}}
    \cup {NoneRow}

TemplateRecords == Dicts({nA, nB}, TemplateRows, MaxRecRows)

ModelRows ==
    {DictRow(<<<<c2023, Num(100 * Scale)>>, <<c2024, Num(150 * Scale)>>>>),
     DictRow(<<<<c2024, None>>>>),
     NoneRow}

ModelItems ==
    {Item(FALSE, None, NoneRow)}
    \cup {Item(TRUE, nm, v) : nm \in {Str(nA), Str(na), Str(nAsp), Str(nB), None}, v \in ModelRows}

ModelLists == UNION {[1..m -> ModelItems] : m \in 0..MaxItems}

Responses ==
    {Response(kd, FALSE, FALSE, <<>>) : kd \in {"raise", "empty", "invalid", "nonobject", "object"}}
    \cup {Response("object", TRUE, FALSE, <<>>)}
    \cup {Response("object", TRUE, TRUE, l) : l \in ModelLists}

Max(S) == CHOOSE m \in S : \A o \in S : o <= m

Envs == [api_key : BOOLEAN, genai : BOOLEAN, pdf : BOOLEAN]

\* one draw for each cell of the record t
Draws(t) ==
    LET width == Max({0} \cup {Len(t[i][2].d) : i \in 1..Len(t)})
    IN [1..Len(t) -> [1..width -> RandomDraws]]

(***************************************************************************)
(* generate_solution_from_template_and_pdfs, in two steps: up to the       *)
(* model call, and from its outcome to the return.                         *)
(***************************************************************************)
\* lines 354-364: a failed pre-check returns the placeholder record
PreCheckFallback ==
    /\ pc = "start"
    /\ ~env.api_key \/ ~env.genai \/ ~env.pdf
    /\ \E rnd \in Draws(template_json) : generated' = generate_random_placeholder(template_json, rnd)
    /\ path' = "placeholder"
    /\ pc' = "done"
    /\ UNCHANGED <<template_json, env, calls, json_schema, response>>
    /\ UNCHANGED grid_vars
    /\ UNCHANGED service_vars

\* lines 366-413: the request is built and sent
CallModel ==
    /\ pc = "start"
    /\ env.api_key /\ env.genai /\ env.pdf
    /\ json_schema' = create_simplified_schema(template_json)
    /\ calls' = calls + 1
    /\ pc' = "request"
    /\ UNCHANGED <<template_json, env, response, generated, path>>
    /\ UNCHANGED grid_vars
    /\ UNCHANGED service_vars

\* lines 416-449 with a retry: a call that raised or came back empty is
\* made again
Respond_retry ==
    /\ pc = "request"
    /\ \E resp \in Responses :
         /\ response' = resp
         /\ IF resp.kind \in {"raise", "empty"}
            THEN /\ pc' = "start"
                 /\ UNCHANGED <<generated, path>>
            ELSE /\ pc' = "done"
                 /\ IF use_placeholder(resp)
                    THEN /\ \E rnd \in Draws(template_json) :
                              generated' = generate_random_placeholder(template_json, rnd)
                         /\ path' = "placeholder"
                    ELSE /\ generated' = reconcile(template_json, row_map(rows_list(resp)))
                         /\ path' = "reconciled"
    /\ UNCHANGED <<template_json, env, calls, json_schema>>
    /\ UNCHANGED grid_vars
    /\ UNCHANGED service_vars

\* lines 416-449: the outcome of the call, reconciled or replaced
Respond ==
    /\ pc = "request"
    /\ \E resp \in Responses :
         /\ response' = resp
         /\ IF use_placeholder(resp)
            THEN /\ \E rnd \in Draws(template_json) :
                      generated' = generate_random_placeholder(template_json, rnd)
                 /\ path' = "placeholder"
            ELSE /\ generated' = reconcile(template_json, row_map(rows_list(resp)))
                 /\ path' = "reconciled"
    /\ pc' = "done"
    /\ UNCHANGED <<template_json, env, calls, json_schema>>
    /\ UNCHANGED grid_vars
    /\ UNCHANGED service_vars

(***************************************************************************)
(* Worksheets: [nr, nc, cell], cell[<<r, c>>] for r in 1..nr, c in 1..nc.  *)
(* nr and nc are ws.max_row and ws.max_column.                             *)
(***************************************************************************)
Ws(nr, nc, cell) == [nr |-> nr, nc |-> nc, cell |-> cell]

NoWs == Ws(0, 0, <<>>)

\* ws.cell(row=r, column=c).value; a cell outside the sheet's extent is None
CellAt(w, r, c) == IF r \in 1..w.nr /\ c \in 1..w.nc THEN w.cell[<<r, c>>] ELSE None

Min(S) == CHOOSE m \in S : \A o \in S : m <= o

\* the members of a finite set of integers, ascending
RECURSIVE Sorted(_)
Sorted(S) == IF S = {} THEN <<>> ELSE <<Min(S)>> \o Sorted(S \ {Min(S)})

(***************************************************************************)
(* excel_to_json.                                                          *)
(* pd.read_excel(header=None) turns a cell that is unset, or that holds    *)
(* the empty string, into NaN, and gives each column a dtype: object when  *)
(* it holds a str, else float64 when it holds a NaN or a number with a     *)
(* fractional part, else int64.  Blank rows after the last row with a      *)
(* value are not read.  str() of an integer-valued label is "2024" when    *)
(* the label is an int and "2024.0" when it is a float.  Whether an Index  *)
(* built from number-only labels of mixed kinds is converted to floats     *)
(* depends on the pandas release: infer says it is.                        *)
(***************************************************************************)
isna(v) == IsNone(v) \/ (v.k = "str" /\ v.s = <<>>)

\* df.dropna(how='all'): the rows that keep a value
kept_rows(w) == Sorted({r \in 1..w.nr : \E c \in 1..w.nc : ~isna(w.cell[<<r, c>>])})

\* df.dropna(axis=1, how='all'): the columns that keep a value
kept_cols(w) == Sorted({c \in 1..w.nc : \E r \in 1..w.nr : ~isna(w.cell[<<r, c>>])})

\* the rows pd.read_excel reads: up to the last row with a value
read_rows(w) == 1..kept_rows(w)[Len(kept_rows(w))]

is_frac(v) == v.k = "num" /\ v.n % Scale # 0

\* column c was read as dtype object
col_object(w, c) == \E r \in read_rows(w) : w.cell[<<r, c>>].k = "str" /\ ~isna(w.cell[<<r, c>>])

\* column c was read as dtype float64
col_float(w, c) ==
    /\ ~col_object(w, c)
    /\ \E r \in read_rows(w) : isna(w.cell[<<r, c>>]) \/ is_frac(w.cell[<<r, c>>])

\* the column labels df.iloc[0] are floats: the label of column c comes from
\* a float64 column, or no column is of dtype object and one is float64, or
\* the Index built from number-only labels is converted to floats
label_as_float(w, infer, c) ==
    LET kr == kept_rows(w)
        kc == kept_cols(w)
        cols == {kc[i] : i \in 1..Len(kc)}
        lab(k) == w.cell[<<kr[1], k>>]
    IN \/ col_float(w, c)
       \/ /\ \A k \in cols : ~col_object(w, k)
          /\ \E k \in cols : col_float(w, k)
       \/ /\ infer
          /\ \A k \in cols : lab(k).k # "str" \/ isna(lab(k))
          /\ \E k \in cols : isna(lab(k)) \/ is_frac(lab(k)) \/ col_float(w, k)

\* the row names df.index are floats: the identifier column is float64, or
\* the Index built from number-only identifiers is converted to floats
index_as_float(w, infer) ==
    LET kr == kept_rows(w)
        ic == kept_cols(w)[1]
        ids == {w.cell[<<kr[i], ic>>] : i \in 2..Len(kr)}
    IN \/ col_float(w, ic)
       \/ /\ infer
          /\ \A v \in ids : v.k # "str" \/ isna(v)
          /\ \E v \in ids : isna(v) \/ is_frac(v)

NaNStr == <<"n", "a", "n">>

\* str(col_name), str(row_name)
label_str(v, asfloat) ==
    IF isna(v) THEN NaNStr
    ELSE IF v.k = "str" THEN v.s
    ELSE IF v.n % Scale = 0 /\ ~asfloat THEN IntStr(v.n)
    ELSE FloatStr(v.n)

\* two column labels that pandas takes for the same label
same_label(a, b) == (isna(a) /\ isna(b)) \/ (~isna(a) /\ ~isna(b) /\ a = b)

\* df.set_index(df.columns[0]) raises when another column carries the label
\* of the first one (df[label] is then a frame, not a column)
set_index_raises(w) ==
    LET kr == kept_rows(w)
        kc == kept_cols(w)
    IN \E i \in 2..Len(kc) :
          same_label(w.cell[<<kr[1], kc[i]>>], w.cell[<<kr[1], kc[1]>>])

\* line 110 left out: rows with a NaN identifier stay
data_rows_keep_nan(w) == Tail(kept_rows(w))

\* lines 99-110: the rows after the header row whose identifier is not NaN
data_rows(w) ==
    LET kc == kept_cols(w)
    IN SelectSeq(Tail(kept_rows(w)), LAMBDA r : ~isna(w.cell[<<r, kc[1]>>]))

\* lines 115-123 for sheet row r: the first i data columns
RECURSIVE row_dict(_, _, _, _)
row_dict(w, r, infer, i) ==
    IF i = 0 THEN <<>>
    ELSE LET kr == kept_rows(w)
             c  == kept_cols(w)[i + 1]
             v  == w.cell[<<r, c>>]
         IN Put(row_dict(w, r, infer, i - 1),
                label_str(w.cell[<<kr[1], c>>], label_as_float(w, infer, c)),
                IF isna(v) THEN None ELSE v)

\* lines 113-126: the first i data rows
RECURSIVE result_rows(_, _, _)
result_rows(w, infer, i) ==
    IF i = 0 THEN <<>>
    ELSE LET kc == kept_cols(w)
             r  == data_rows(w)[i]
         IN Put(result_rows(w, infer, i - 1),
                label_str(w.cell[<<r, kc[1]>>], index_as_float(w, infer)),
                DictRow(row_dict(w, r, infer, Len(kc) - 1)))

Normalized(ok, rec) == [ok |-> ok, rec |-> rec]

NoNormalized == Normalized(TRUE, <<>>)

\* ok = FALSE: the call raised
excel_to_json(w, infer) ==
    IF kept_rows(w) = <<>> THEN Normalized(TRUE, <<>>)
    ELSE IF set_index_raises(w) THEN Normalized(FALSE, <<>>)
    ELSE Normalized(TRUE, result_rows(w, infer, Len(data_rows(w))))

(***************************************************************************)
(* json_to_excel_template.                                                 *)
(***************************************************************************)
\* v is not None and str(v).strip() != ''
nonblank(v) == ~IsNone(v) /\ strip(PyStr(v)) # <<>>

\* lines 162-169; 0 stands for None
header_row_idx(w) ==
    LET rows == {r \in 1..w.nr : \E c \in 1..w.nc : nonblank(w.cell[<<r, c>>])}
    IN IF rows = {} THEN 0 ELSE Min(rows)

\* lines 180-183 looking at every row below the header
row_name_col_whole_column(w, h) ==
    IF \E r \in (h + 1)..w.nr : ~IsNone(CellAt(w, r, 1)) THEN 1 ELSE 2

\* lines 177-185
row_name_col(w, h) ==
    LET last == IF h + HeaderScan < w.nr + 1 THEN h + HeaderScan - 1 ELSE w.nr
    IN IF \E r \in (h + 1)..last : ~IsNone(CellAt(w, r, 1)) THEN 1 ELSE 2

\* lines 189-194: the columns of column_headers
column_headers(w, h, rc) == {c \in (rc + 1)..w.nc : nonblank(w.cell[<<h, c>>])}

\* lines 197-206, for a header cell or a column name (never None here)
normalize_col_name(v) ==
    IF v.k = "num" THEN FloatStr(v.n)
    ELSE IF ParseFloat(v.s).ok THEN FloatStr(ParseFloat(v.s).n)
    ELSE strip(v.s)

\* lines 215-227 comparing str(header) with the name as it is
col_matches_raw(tv, name) == PyStr(tv) = name

\* lines 222 and 227
col_matches(tv, name) ==
    LET nt == normalize_col_name(tv)
        nj == normalize_col_name(Str(name))
    IN nt = nj \/ replace_dot0(nt) = replace_dot0(nj)

\* lines 209-210 taking the column names of every row
json_col_names_all_rows(jd) ==
    UNION {ColNames(jd[i][2]) : i \in 1..Len(jd)}

\* lines 209-210 taking the first entry that is a dict
json_col_names_first_dict(jd) ==
    LET S == {i \in 1..Len(jd) : jd[i][2].isdict}
    IN IF S = {} THEN {} ELSE ColNames(jd[Min(S)][2])

\* lines 209-210: the column names of the first entry
json_col_names(jd) == IF jd # <<>> THEN ColNames(jd[1][2]) ELSE {}

\* the orders in which a set can be iterated
Orders(S) == {o \in [1..Cardinality(S) -> S] : \A i, j \in 1..Cardinality(S) : i # j => o[i] # o[j]}

\* lines 213-231 for the first i header columns (ascending); order is the
\* iteration order of the set json_col_names
RECURSIVE json_to_col(_, _, _, _, _)
json_to_col(w, h, cols, order, i) ==
    IF i = 0 THEN <<>>
    ELSE LET prev == json_to_col(w, h, cols, order, i - 1)
             hits == {k \in 1..Len(order) : col_matches(w.cell[<<h, cols[i]>>], order[k])}
         IN IF hits = {} THEN prev ELSE Put(prev, order[Min(hits)], cols[i])

\* lines 235-240 with the header row taken in
RECURSIVE row_name_to_row_idx_from_header(_, _, _, _)
row_name_to_row_idx_from_header(w, h, rc, r) ==
    IF r < h THEN <<>>
    ELSE LET prev == row_name_to_row_idx_from_header(w, h, rc, r - 1)
             v    == CellAt(w, r, rc)
         IN IF nonblank(v) THEN Put(prev, strip(PyStr(v)), r) ELSE prev

\* lines 235-240 up to sheet row r
RECURSIVE row_name_to_row_idx(_, _, _, _)
row_name_to_row_idx(w, h, rc, r) ==
    IF r <= h THEN <<>>
    ELSE LET prev == row_name_to_row_idx(w, h, rc, r - 1)
             v    == CellAt(w, r, rc)
         IN IF nonblank(v) THEN Put(prev, strip(PyStr(v)), r) ELSE prev

\* lines 248-250 alone: the exact match and nothing after it
find_row_exact(rows, name) == IF Has(rows, name) THEN Get(rows, name) ELSE 0

\* lines 248-257; 0 stands for None
find_row(rows, name) ==
    IF Has(rows, name) THEN Get(rows, name)
    ELSE LET hits == {k \in 1..Len(rows) : lower(name) = lower(rows[k][1])}
         IN IF hits = {} THEN 0 ELSE rows[Min(hits)][2]

Filled(cell, wr) == [cell |-> cell, written |-> wr]

\* lines 264-270 for the first j columns of the row dict d, written to row r
RECURSIVE write_row(_, _, _, _, _)
write_row(st, r, d, jtc, j) ==
    IF j = 0 THEN st
    ELSE LET prev == write_row(st, r, d, jtc, j - 1)
         IN IF Has(jtc, d[j][1])
            THEN Filled([prev.cell EXCEPT ![<<r, Get(jtc, d[j][1])>>] = d[j][2]],
                        prev.written \cup {<<r, Get(jtc, d[j][1])>>})
            ELSE prev

\* lines 243-270 for the first i entries of json_data
RECURSIVE write_rows(_, _, _, _, _)
write_rows(st, jd, rows, jtc, i) ==
    IF i = 0 THEN st
    ELSE LET prev == write_rows(st, jd, rows, jtc, i - 1)
             r    == find_row(rows, jd[i][1])
         IN IF ~jd[i][2].isdict \/ r = 0 THEN prev
            ELSE write_row(prev, r, jd[i][2].d, jtc, Len(jd[i][2].d))

\* the column mapping of one run
col_mapping(jd, w, order) ==
    LET h  == header_row_idx(w)
        rc == row_name_col(w, h)
        cols == Sorted(column_headers(w, h, rc))
    IN IF jd = <<>> \/ h = 0 THEN <<>>
       ELSE json_to_col(w, h, cols, order, Len(cols))

\* the row mapping of one run
row_mapping(jd, w) ==
    LET h  == header_row_idx(w)
    IN IF jd = <<>> \/ h = 0 THEN <<>>
       ELSE row_name_to_row_idx(w, h, row_name_col(w, h), w.nr)

\* the cells of the saved workbook and the cells line 270 assigned
json_to_excel_template(jd, w, order) ==
    IF jd = <<>> \/ header_row_idx(w) = 0 THEN Filled(w.cell, {})
    ELSE write_rows(Filled(w.cell, {}), jd, row_mapping(jd, w),
                    col_mapping(jd, w, order), Len(jd))

(***************************************************************************)
(* The worksheets and records the normalizer and the rehydrator are run    *)
(* on.                                                                     *)
(***************************************************************************)
nItem == <<"I", "t", "e", "m">>
c2024f == <<"2", "0", "2", "4", ".", "0">>
c105 == <<"1", ".", "0", "5">>
c15 == <<"1", "5">>

\* a worksheet of MaxRows x MaxCols cells from its corner cell, the other
\* cells of row 1, the other cells of column 1, and the cells below and right
Template(corner, hdr, ids, data) ==
    Ws(MaxRows, MaxCols,
       [p \in (1..MaxRows) \X (1..MaxCols) |->
          IF p[1] = 1 /\ p[2] = 1 THEN corner
          ELSE IF p[1] = 1 THEN hdr[p[2]]
          ELSE IF p[2] = 1 THEN ids[p[1]]
          ELSE data[p]])

\* datacells[r]: the values a cell of row r may hold
TemplatesOf(corners, hdrs, idcells, datacells) ==
    {Template(k, h, i, d) :
        k \in corners,
        h \in [2..MaxCols -> hdrs],
        i \in [2..MaxRows -> idcells],
        d \in {e \in [(2..MaxRows) \X (2..MaxCols) ->
                         UNION {datacells[r] : r \in 2..MaxRows}] :
                  \A q \in (2..MaxRows) \X (2..MaxCols) : e[q] \in datacells[q[1]]}}

\* blank rows and columns, a corner that is blank, a title or a year that
\* the headers repeat, numeric and text headers, identifiers that differ in
\* case or in a trailing blank
Templates ==
    TemplatesOf({None, Str(nItem), Str(c2023)},
                {None, Str(c2023), Num(2024 * Scale)},
                {None, Str(nA), Str(nAsp), Str(na)},
                [r \in 2..MaxRows |-> {None, Num(50 * r * Scale)}])

\* grids whose data cells are unset, hold 0 or hold the empty string
ZeroTemplates ==
    TemplatesOf({Str(nItem)},
                {None, Str(c2023)},
                {None, Str(nA)},
                [r \in 2..MaxRows |-> {None, Num(0), Str(<<>>)}])

\* a header row and an identifier column, every data cell filled; headers
\* that are blank, text, numeric and a text with '.0' inside; identifiers
\* with a trailing blank and without
FillTemplates ==
    TemplatesOf({Str(nItem)},
                {None, Str(c2023), Num(2024 * Scale), Str(c105)},
                {Str(nAsp), Str(nB)},
                [r \in 2..MaxRows |-> {Num(5 * Scale)}])

\* the column names of the records handed to the rehydrator
FilledCols == <<c2023, c2024, c2024f, c15>>

\* rows of at most MaxRecCols of these columns, all of them filled or all of
\* them null, and a row that is no dict
FilledRows ==
    {DictRow([j \in 1..Cardinality(S) |-> <<FilledCols[Sorted(S)[j]], v>>]) :
        S \in {T \in SUBSET (1..Len(FilledCols)) : Cardinality(T) <= MaxRecCols},
        v \in {None, Num(7 * Scale)}}
    \cup {NoneRow}

FilledRecords == Dicts({na, nB}, FilledRows, MaxRecRows)

\* a sheet with no cell set
BlankTemplate == Ws(MaxRows, MaxCols, [p \in (1..MaxRows) \X (1..MaxCols) |-> None])

\* the height and width of the tall sheets
TallRows == 12
TallCols == 3

\* a tall sheet: header row h with c1 and c2 in its first two cells and a
\* year in the others; above it rows that are unset but for the value
\* above in column 1; below it the identifier "B" in column 2, data in the
\* columns right of it, and column 1 unset but for the value v in row k
TallTemplate(h, above, c1, c2, k, v) ==
    Ws(TallRows, TallCols,
       [p \in (1..TallRows) \X (1..TallCols) |->
          IF p[1] < h THEN (IF p[2] = 1 THEN above ELSE None)
          ELSE IF p[1] = h
          THEN (IF p[2] = 1 THEN c1 ELSE IF p[2] = 2 THEN c2 ELSE Str(c2023))
          ELSE IF p[2] = 1 THEN (IF p[1] = k THEN v ELSE None)
          ELSE IF p[2] = 2 THEN Str(nB)
          ELSE Num(5 * Scale)])

\* header in row 1 or 2, under a row that is unset or holds a blank string,
\* its first cell unset, a title or a name that a row carries too;
\* column 1 below the header unset (k = 0) or set in one row, to a name or
\* to a blank string
TallTemplates ==
    {TallTemplate(h, above, c1, c2, k, v) :
        h \in 1..2, above \in {None, Str(<<" ">>)},
        c1 \in {None, Str(nItem), Str(nB)}, c2 \in {None, Str(nItem)},
        k \in {0} \cup (3..TallRows), v \in {Str(nB), Str(<<" ">>)}}

\* the records filled into the tall sheets: the one row "B"
TallRecords == {<<<<nB, row>>>> : row \in FilledRows}

\* arguments that are no dict: lists of one <<name, row>> item
NonMappings == {<<<<nm, row>>>> : nm \in {na, nB}, row \in FilledRows}

(***************************************************************************)
(* The steps of the normalizer and the rehydrator.                         *)
(***************************************************************************)
\* excel_to_json(template)
Normalize ==
    /\ gpc = "template"
    /\ \E infer \in BOOLEAN : normalized' = excel_to_json(ws, infer)
    /\ gpc' = IF normalized'.ok THEN "normalized" ELSE "failed"
    /\ UNCHANGED <<ws, json_data, json_is_mapping, out_ws, written, set_order,
                   hdr_row, name_col>>
    /\ UNCHANGED adapter_vars
    /\ UNCHANGED service_vars

\* the normalized record of the template is the record to fill in
UseNormalized ==
    /\ gpc = "normalized"
    /\ json_data' = normalized.rec
    /\ json_is_mapping' = TRUE
    /\ gpc' = "filled"
    /\ UNCHANGED <<ws, normalized, out_ws, written, set_order, hdr_row, name_col>>
    /\ UNCHANGED adapter_vars
    /\ UNCHANGED service_vars

\* lines 150-270 without lines 150-154: the argument is taken for a record
Rehydrate_unchecked ==
    /\ gpc = "filled"
    /\ \E order \in Orders(json_col_names(json_data)) :
         LET saved == json_to_excel_template(json_data, ws, order)
         IN /\ set_order' = order
            /\ out_ws' = Ws(ws.nr, ws.nc, saved.cell)
            /\ written' = saved.written
    /\ hdr_row' = header_row_idx(ws)
    /\ name_col' = IF header_row_idx(ws) = 0 THEN 0
                   ELSE row_name_col(ws, header_row_idx(ws))
    /\ gpc' = "saved"
    /\ UNCHANGED <<ws, normalized, json_data, json_is_mapping>>
    /\ UNCHANGED adapter_vars
    /\ UNCHANGED service_vars

\* json_to_excel_template(json_data, template, output).  Lines 150-154: an
\* argument that is empty or no dict has the template file copied to the
\* output ("copied"); otherwise the workbook is loaded, filled in and saved
\* ("saved").
Rehydrate ==
    /\ gpc = "filled"
    /\ IF json_data = <<>> \/ ~json_is_mapping
       THEN /\ set_order' = <<>>
            /\ out_ws' = ws
            /\ written' = {}
            /\ hdr_row' = 0
            /\ name_col' = 0
            /\ gpc' = "copied"
       ELSE /\ \E order \in Orders(json_col_names(json_data)) :
                 LET saved == json_to_excel_template(json_data, ws, order)
                 IN /\ set_order' = order
                    /\ out_ws' = Ws(ws.nr, ws.nc, saved.cell)
                    /\ written' = saved.written
            /\ hdr_row' = header_row_idx(ws)
            /\ name_col' = IF header_row_idx(ws) = 0 THEN 0
                           ELSE row_name_col(ws, header_row_idx(ws))
            /\ gpc' = "saved"
    /\ UNCHANGED <<ws, normalized, json_data, json_is_mapping>>
    /\ UNCHANGED adapter_vars
    /\ UNCHANGED service_vars

(***************************************************************************)
(* The server (src/server/app.py) and the job (process_request).  The      *)
(* Firestore collection extraction_requests, the storage bucket, the       *)
(* requests to the server and the runs of the Cloud Run job.               *)
(***************************************************************************)
\* the callers holding a valid token
Users == {"ann", "bob"}

\* a caller without a valid token
Anonymous == "nobody"

\* the document ids Firestore hands out, and the runs of the job
MaxRequests == 2
MaxJobs == 2

RequestIds == 1..MaxRequests

Jobs == 1..MaxJobs

\* a blob name: dir/ (when dir # 0), then glued (when # 0), then base
Blob(dir, glued, base) == [dir |-> dir, glued |-> glued, base |-> base]

NoBlob == Blob(0, 0, "")

\* f"{request_id}/template.{template_ext}"
TemplateBlob(rid) == Blob(rid, 0, "template")

\* f"{request_id}/pdf_{idx + 1}_{pdf_file.filename}"
PdfBlob(rid) == Blob(rid, 0, "pdf_1")

\* f"{request_id}/solution.xlsx"
SolutionBlob(rid) == Blob(rid, 0, "solution.xlsx")

\* the alternative paths of download_output, in their order
AltPaths(rid) ==
    <<Blob(rid, 0, "solution.xlsx"), Blob(0, rid, "solution.xlsx"), Blob(0, 0, "solution.xlsx")>>

\* a document of the collection; has_paths: template_blob_path and
\* pdf_blob_paths are set
Doc(user_email, status, has_paths, solution_blob_path, error) ==
    [exists |-> TRUE, user_email |-> user_email, status |-> status,
     has_paths |-> has_paths, solution_blob_path |-> solution_blob_path,
     error |-> error]

NoDoc ==
    [exists |-> FALSE, user_email |-> "", status |-> "", has_paths |-> FALSE,
     solution_blob_path |-> NoBlob, error |-> ""]

\* a response of download_output: the status code and the blob whose
\* content is the body (NoBlob when the body is JSON)
Reply(code, content) == [code |-> code, content |-> content]

NoReply == Reply(0, NoBlob)

\* lines 708-733: the blob download_output serves, NoBlob when none is found
solution_blob(rid, bs) ==
    IF SolutionBlob(rid) \in bs THEN SolutionBlob(rid)
    ELSE LET hits == {k \in 1..Len(AltPaths(rid)) : AltPaths(rid)[k] \in bs}
         IN IF hits = {} THEN NoBlob ELSE AltPaths(rid)[Min(hits)]

\* lines 684-685 left out: the caller need not own the request
download_output_any_caller(caller, rid, ds, bs) ==
    IF caller = Anonymous THEN Reply(401, NoBlob)
    ELSE IF ~ds[rid].exists THEN Reply(404, NoBlob)
    ELSE IF ds[rid].status \notin {"complete", "completed"}
    THEN Reply(400, NoBlob)
    ELSE IF solution_blob(rid, bs) = NoBlob THEN Reply(404, NoBlob)
    ELSE Reply(200, solution_blob(rid, bs))

\* require_token (lines 63-93) and download_output (lines 668-746)
download_output(caller, rid, ds, bs) ==
    IF caller = Anonymous THEN Reply(401, NoBlob)
    ELSE IF ~ds[rid].exists THEN Reply(404, NoBlob)
    ELSE IF ds[rid].user_email # caller THEN Reply(403, NoBlob)
    ELSE IF ds[rid].status \notin {"complete", "completed"}
    THEN Reply(400, NoBlob)
    ELSE IF solution_blob(rid, bs) = NoBlob THEN Reply(404, NoBlob)
    ELSE Reply(200, solution_blob(rid, bs))

\* GET /api/requests/<request_id>/download
Download(caller, rid) ==
    /\ reply' = download_output(caller, rid, docs, blobs)
    /\ UNCHANGED <<docs, blobs, epc, jpc, jrid, jdata, jerr, jexit, jupd>>
    /\ UNCHANGED <<adapter_vars, grid_vars>>

\* POST /api/extract, lines 198-222: the document is added with status
\* 'pending' under a fresh id
CreateRequest(caller) ==
    /\ \E rid \in RequestIds :
         /\ ~docs[rid].exists
         /\ \A k \in RequestIds : k < rid => docs[k].exists
         /\ docs' = [docs EXCEPT ![rid] = Doc(caller, "pending", FALSE, NoBlob, "")]
         /\ epc' = [epc EXCEPT ![rid] = "created"]
    /\ UNCHANGED <<blobs, jpc, jrid, jdata, jerr, jexit, jupd, reply>>
    /\ UNCHANGED <<adapter_vars, grid_vars>>

\* lines 244-296: the template and the PDFs are uploaded
UploadFiles(rid) ==
    /\ epc[rid] = "created"
    /\ blobs' = blobs \cup {TemplateBlob(rid), PdfBlob(rid)}
    /\ epc' = [epc EXCEPT ![rid] = "uploaded"]
    /\ UNCHANGED <<docs, jpc, jrid, jdata, jerr, jexit, jupd, reply>>
    /\ UNCHANGED <<adapter_vars, grid_vars>>

\* lines 304-337: the blob paths are stored in the document (201)
SavePaths(rid) ==
    /\ epc[rid] = "uploaded"
    /\ docs' = [docs EXCEPT ![rid].has_paths = TRUE]
    /\ epc' = [epc EXCEPT ![rid] = "done"]
    /\ UNCHANGED <<blobs, jpc, jrid, jdata, jerr, jexit, jupd, reply>>
    /\ UNCHANGED <<adapter_vars, grid_vars>>

\* lines 339-369: an upload or the update raised (403 or 500); the document
\* stays as it is
CreateFails(rid) ==
    /\ epc[rid] \in {"created", "uploaded"}
    /\ epc' = [epc EXCEPT ![rid] = "failed"]
    /\ UNCHANGED <<docs, blobs, jpc, jrid, jdata, jerr, jexit, jupd, reply>>
    /\ UNCHANGED <<adapter_vars, grid_vars>>

\* a run of the job is started with REQUEST_ID = rid (__main__, lines 655-668)
StartJob(j, rid) ==
    /\ jpc' = [jpc EXCEPT ![j] = "start"]
    /\ jrid' = [jrid EXCEPT ![j] = rid]

\* POST /api/requests/<request_id>/trigger (lines 754-813): 401 without a
\* valid token, 404 for an unknown id, 403 for the request of another user,
\* else the job is run (200)
Trigger(caller, rid) ==
    /\ IF caller = Anonymous \/ ~docs[rid].exists \/ docs[rid].user_email # caller
       THEN UNCHANGED <<jpc, jrid>>
       ELSE \E j \in Jobs :
               /\ jpc[j] = "idle"
               /\ \A k \in Jobs : k < j => jpc[k] # "idle"
               /\ StartJob(j, rid)
    /\ UNCHANGED <<docs, blobs, epc, jdata, jerr, jexit, jupd, reply>>
    /\ UNCHANGED <<adapter_vars, grid_vars>>

\* the job is executed with an id given on the command line
RunJob(rid) ==
    /\ \E j \in Jobs :
         /\ jpc[j] = "idle"
         /\ \A k \in Jobs : k < j => jpc[k] # "idle"
         /\ StartJob(j, rid)
    /\ UNCHANGED <<docs, blobs, epc, jdata, jerr, jexit, jupd, reply>>
    /\ UNCHANGED <<adapter_vars, grid_vars>>

\* process_request, lines 539-546: the document is read; a missing document
\* raises, and __main__ exits with code 1
GetRequest(j) ==
    /\ jpc[j] = "start"
    /\ IF docs[jrid[j]].exists
       THEN /\ jdata' = [jdata EXCEPT ![j] = docs[jrid[j]].has_paths]
            /\ jpc' = [jpc EXCEPT ![j] = "read"]
            /\ UNCHANGED jexit
       ELSE /\ jpc' = [jpc EXCEPT ![j] = "exited"]
            /\ jexit' = [jexit EXCEPT ![j] = 1]
            /\ UNCHANGED jdata
    /\ UNCHANGED <<docs, blobs, epc, jrid, jerr, jupd, reply>>
    /\ UNCHANGED <<adapter_vars, grid_vars>>

\* lines 549-553: the status is set to 'processing'; the update is outside
\* the try block, so when it raises the run ends with code 1
MarkProcessing(j) ==
    /\ jpc[j] = "read"
    /\ \/ /\ docs' = [docs EXCEPT ![jrid[j]].status = "processing"]
          /\ jpc' = [jpc EXCEPT ![j] = "processing"]
          /\ UNCHANGED jexit
       \/ /\ jpc' = [jpc EXCEPT ![j] = "exited"]
          /\ jexit' = [jexit EXCEPT ![j] = 1]
          /\ UNCHANGED docs
    /\ UNCHANGED <<blobs, epc, jrid, jdata, jerr, jupd, reply>>
    /\ UNCHANGED <<adapter_vars, grid_vars>>

\* the step at jpc = from raises err, or goes on to jpc = to
Step(j, from, to, err) ==
    /\ jpc[j] = from
    /\ IF err # ""
       THEN /\ jpc' = [jpc EXCEPT ![j] = "except"]
            /\ jerr' = [jerr EXCEPT ![j] = err]
       ELSE /\ jpc' = [jpc EXCEPT ![j] = to]
            /\ UNCHANGED jerr

\* lines 561-574: the template is downloaded
DownloadTemplate(j) ==
    /\ Step(j, "processing", "template",
            IF ~jdata[j] THEN "Template blob path not found in request"
            ELSE IF TemplateBlob(jrid[j]) \notin blobs THEN "Template file not found in storage"
            ELSE "")
    /\ UNCHANGED <<docs, blobs, epc, jrid, jdata, jexit, jupd, reply>>
    /\ UNCHANGED <<adapter_vars, grid_vars>>

\* lines 577-599: the PDFs are downloaded
DownloadPdfs(j) ==
    /\ Step(j, "template", "pdfs",
            IF ~jdata[j] THEN "PDF blob paths not found in request" ELSE "")
    /\ UNCHANGED <<docs, blobs, epc, jrid, jdata, jexit, jupd, reply>>
    /\ UNCHANGED <<adapter_vars, grid_vars>>

\* lines 601-619: excel_to_json, parse_pdfs_from_bytes,
\* generate_solution_from_template_and_pdfs and json_to_excel_template run,
\* and one of them may raise
Convert(j) ==
    /\ \E err \in {"", "conversion error"} : Step(j, "pdfs", "converted", err)
    /\ UNCHANGED <<docs, blobs, epc, jrid, jdata, jexit, jupd, reply>>
    /\ UNCHANGED <<adapter_vars, grid_vars>>

\* lines 621-626: solution.xlsx is uploaded, or the upload raises
UploadSolution(j) ==
    /\ \E err \in {"", "upload error"} :
         /\ Step(j, "converted", "uploaded", err)
         /\ blobs' = IF err = "" THEN blobs \cup {SolutionBlob(jrid[j])} ELSE blobs
    /\ UNCHANGED <<docs, epc, jrid, jdata, jexit, jupd, reply>>
    /\ UNCHANGED <<adapter_vars, grid_vars>>

\* lines 628-634 run before the upload of lines 621-626
MarkCompleted_before_upload(j) ==
    /\ jpc[j] \in {"converted", "uploaded"}
    /\ docs' = [docs EXCEPT ![jrid[j]].status = "completed",
                            ![jrid[j]].solution_blob_path = SolutionBlob(jrid[j])]
    /\ jpc' = [jpc EXCEPT ![j] = "exited"]
    /\ jexit' = [jexit EXCEPT ![j] = 0]
    /\ UNCHANGED <<blobs, epc, jrid, jdata, jerr, jupd, reply>>
    /\ UNCHANGED <<adapter_vars, grid_vars>>

\* lines 628-634: the status is set to 'completed' and the run ends with
\* code 0 (lines 671-673), or the update raises
MarkCompleted(j) ==
    /\ jpc[j] = "uploaded"
    /\ \/ /\ docs' = [docs EXCEPT ![jrid[j]].status = "completed",
                                  ![jrid[j]].solution_blob_path = SolutionBlob(jrid[j])]
          /\ jpc' = [jpc EXCEPT ![j] = "exited"]
          /\ jexit' = [jexit EXCEPT ![j] = 0]
          /\ UNCHANGED jerr
       \/ /\ jpc' = [jpc EXCEPT ![j] = "except"]
          /\ jerr' = [jerr EXCEPT ![j] = "update error"]
          /\ UNCHANGED <<docs, jexit>>
    /\ UNCHANGED <<blobs, epc, jrid, jdata, jupd, reply>>
    /\ UNCHANGED <<adapter_vars, grid_vars>>

\* lines 637-652 without the update of lines 643-648
HandleError_silent(j) ==
    /\ jpc[j] = "except"
    /\ jpc' = [jpc EXCEPT ![j] = "exited"]
    /\ jexit' = [jexit EXCEPT ![j] = 1]
    /\ UNCHANGED <<docs, blobs, epc, jrid, jdata, jerr, jupd, reply>>
    /\ UNCHANGED <<adapter_vars, grid_vars>>

\* lines 637-652 and 674-678: the status is set to 'failed' with the error
\* text (an update that raises is passed over), the exception is raised
\* again and the run ends with code 1
HandleError(j) ==
    /\ jpc[j] = "except"
    /\ \/ /\ docs' = [docs EXCEPT ![jrid[j]].status = "failed", ![jrid[j]].error = jerr[j]]
          /\ jupd' = [jupd EXCEPT ![j] = "ok"]
       \/ /\ docs' = docs
          /\ jupd' = [jupd EXCEPT ![j] = "raised"]
    /\ jpc' = [jpc EXCEPT ![j] = "exited"]
    /\ jexit' = [jexit EXCEPT ![j] = 1]
    /\ UNCHANGED <<blobs, epc, jrid, jdata, jerr, reply>>
    /\ UNCHANGED <<adapter_vars, grid_vars>>

InitServiceIdle ==
    /\ docs = [rid \in RequestIds |-> NoDoc]
    /\ blobs = {}
    /\ epc = [rid \in RequestIds |-> "none"]
    /\ jpc = [j \in Jobs |-> "idle"]
    /\ jrid = [j \in Jobs |-> 0]
    /\ jdata = [j \in Jobs |-> FALSE]
    /\ jerr = [j \in Jobs |-> ""]
    /\ jexit = [j \in Jobs |-> -1]
    /\ jupd = [j \in Jobs |-> "none"]
    /\ reply = NoReply

InitGridIdle ==
    /\ ws = NoWs
    /\ normalized = NoNormalized
    /\ json_data = <<>>
    /\ json_is_mapping = TRUE
    /\ out_ws = NoWs
    /\ written = {}
    /\ set_order = <<>>
    /\ hdr_row = 0
    /\ name_col = 0
    /\ gpc = "idle"

InitAdapterIdle ==
    /\ template_json = <<>>
    /\ env = [api_key |-> FALSE, genai |-> FALSE, pdf |-> FALSE]
    /\ pc = "idle"
    /\ calls = 0
    /\ json_schema = NoSchema
    /\ response = NoResponse
    /\ generated = <<>>
    /\ path = "none"

InitAdapter ==
    /\ template_json \in TemplateRecords
    /\ env \in Envs
    /\ pc = "start"
    /\ calls = 0
    /\ json_schema = NoSchema
    /\ response = NoResponse
    /\ generated = <<>>
    /\ path = "none"
    /\ InitGridIdle
    /\ InitServiceIdle

NextAdapter == PreCheckFallback \/ CallModel \/ Respond

\* one call of generate_solution_from_template_and_pdfs
SpecAdapter == InitAdapter /\ [][NextAdapter]_vars

InitRoundTrip ==
    /\ ws \in Templates \cup ZeroTemplates
    /\ normalized = NoNormalized
    /\ json_data = <<>>
    /\ json_is_mapping = TRUE
    /\ out_ws = NoWs
    /\ written = {}
    /\ set_order = <<>>
    /\ hdr_row = 0
    /\ name_col = 0
    /\ gpc = "template"
    /\ InitAdapterIdle
    /\ InitServiceIdle

NextRoundTrip == Normalize \/ UseNormalized \/ Rehydrate

\* json_to_excel_template(excel_to_json(t), t, out)
SpecRoundTrip == InitRoundTrip /\ [][NextRoundTrip]_vars

InitRehydrate ==
    /\ \/ /\ ws \in FillTemplates \cup {BlankTemplate}
          /\ \/ json_is_mapping = TRUE /\ json_data \in FilledRecords
             \/ json_is_mapping = FALSE /\ json_data \in NonMappings
       \/ /\ ws \in TallTemplates
          /\ json_is_mapping = TRUE /\ json_data \in TallRecords
    /\ normalized = NoNormalized
    /\ out_ws = NoWs
    /\ written = {}
    /\ set_order = <<>>
    /\ hdr_row = 0
    /\ name_col = 0
    /\ gpc = "filled"
    /\ InitAdapterIdle
    /\ InitServiceIdle

NextRehydrate == Rehydrate

\* json_to_excel_template(filled, t, out) for any record
SpecRehydrate == InitRehydrate /\ [][NextRehydrate]_vars

\* the runs of the job for the requests that /api/extract creates, started
\* by /api/requests/<id>/trigger or by hand
InitJob == InitServiceIdle /\ InitAdapterIdle /\ InitGridIdle

NextJob ==
    \/ \E caller \in Users : CreateRequest(caller)
    \/ \E rid \in RequestIds : UploadFiles(rid)
    \/ \E rid \in RequestIds : SavePaths(rid)
    \/ \E rid \in RequestIds : CreateFails(rid)
    \/ \E caller \in Users \cup {Anonymous}, rid \in RequestIds : Trigger(caller, rid)
    \/ \E rid \in RequestIds : RunJob(rid)
    \/ \E j \in Jobs : GetRequest(j)
    \/ \E j \in Jobs : MarkProcessing(j)
    \/ \E j \in Jobs : DownloadTemplate(j)
    \/ \E j \in Jobs : DownloadPdfs(j)
    \/ \E j \in Jobs : Convert(j)
    \/ \E j \in Jobs : UploadSolution(j)
    \/ \E j \in Jobs : MarkCompleted(j)
    \/ \E j \in Jobs : HandleError(j)

SpecJob == InitJob /\ [][NextJob]_vars

\* the bucket is empty, or holds a blob solution.xlsx of another origin
\* (the last of the alternative paths of download_output)
InitService ==
    /\ docs = [rid \in RequestIds |-> NoDoc]
    /\ blobs \in {{}, {Blob(0, 0, "solution.xlsx")}}
    /\ epc = [rid \in RequestIds |-> "none"]
    /\ jpc = [j \in Jobs |-> "idle"]
    /\ jrid = [j \in Jobs |-> 0]
    /\ jdata = [j \in Jobs |-> FALSE]
    /\ jerr = [j \in Jobs |-> ""]
    /\ jexit = [j \in Jobs |-> -1]
    /\ jupd = [j \in Jobs |-> "none"]
    /\ reply = NoReply
    /\ InitAdapterIdle
    /\ InitGridIdle

NextService ==
    \/ \E caller \in Users : CreateRequest(caller)
    \/ \E rid \in RequestIds : UploadFiles(rid)
    \/ \E rid \in RequestIds : SavePaths(rid)
    \/ \E rid \in RequestIds : CreateFails(rid)
    \/ \E caller \in Users \cup {Anonymous}, rid \in RequestIds : Trigger(caller, rid)
    \/ \E rid \in RequestIds : RunJob(rid)
    \/ \E j \in Jobs : GetRequest(j)
    \/ \E j \in Jobs : MarkProcessing(j)
    \/ \E j \in Jobs : DownloadTemplate(j)
    \/ \E j \in Jobs : DownloadPdfs(j)
    \/ \E j \in Jobs : Convert(j)
    \/ \E j \in Jobs : UploadSolution(j)
    \/ \E j \in Jobs : MarkCompleted(j)
    \/ \E j \in Jobs : HandleError(j)
    \/ \E caller \in Users \cup {Anonymous}, rid \in RequestIds : Download(caller, rid)

\* the server's routes and the runs of the job, interleaved
SpecService == InitService /\ [][NextService]_vars

(***************************************************************************)
(* Properties of the Extraction Adapter (checked under SpecAdapter).       *)
(***************************************************************************)
Returned == pc = "done"

PreCheckFailed == ~env.api_key \/ ~env.genai \/ ~env.pdf

\* g is t with every None cell of a dict row replaced by a number of the
\* placeholder range, and nothing else changed
IsPlaceholderOf(g, t) ==
    /\ Len(g) = Len(t)
    /\ \A i \in 1..Len(t) :
         /\ g[i][1] = t[i][1]
         /\ g[i][2].isdict = t[i][2].isdict
         /\ Len(g[i][2].d) = Len(t[i][2].d)
         /\ \A j \in 1..Len(t[i][2].d) :
              /\ g[i][2].d[j][1] = t[i][2].d[j][1]
              /\ IF IsNone(t[i][2].d[j][2])
                 THEN /\ g[i][2].d[j][2].k = "num"
                      /\ g[i][2].d[j][2].n >= RandomLow * Scale
                      /\ g[i][2].d[j][2].n <= RandomHigh * Scale
                 ELSE g[i][2].d[j][2] = t[i][2].d[j][2]

\* positions of the model's items named like template row i
ItemsFor(i) ==
    {k \in 1..Len(response.items) : response.items[k].name = Str(template_json[i][1])}

\* C1: whatever the model step did (no call, a raise, an empty body, any parsed
\* list), the returned record has exactly the row-identifiers of the input
\* record, each once.
C1_SameRowSet ==
    Returned =>
        /\ RowNames(generated) = RowNames(template_json)
        /\ Len(generated) = Len(template_json)

\* C1 witness: a reconciled return where the model named a row the template
\* lacks and left out a row the template has.
C1_Witness ==
    /\ Returned /\ path = "reconciled"
    /\ \E k \in 1..Len(response.items) :
         response.items[k].name \notin {Str(r) : r \in RowNames(template_json)}
    /\ \E i \in 1..Len(template_json) : ItemsFor(i) = {}

\* C2: with no credential, no client library, no documents, a raising call or
\* an empty body, the call returns the placeholder-filled input record and
\* not a reconciled one.
C2_FallbackCases ==
    (Returned /\ (PreCheckFailed \/ response.kind \in {"raise", "empty"}))
        => /\ path = "placeholder"
           /\ IsPlaceholderOf(generated, template_json)

\* C2 witness: the model answered with an empty body for a template that has
\* a None cell to fill.
C2_Witness ==
    /\ Returned /\ response.kind = "empty"
    /\ \E i \in 1..Len(template_json) :
         \E j \in 1..Len(template_json[i][2].d) : IsNone(template_json[i][2].d[j][2])

C4_PlaceholderCells ==
    (Returned /\ path = "placeholder") =>
        \A i \in 1..Len(template_json) :
            \A j \in 1..Len(template_json[i][2].d) :
                LET old == template_json[i][2].d[j][2]
                    new == Get(Get(generated, template_json[i][1]).d,
                               template_json[i][2].d[j][1])
                IN IF IsNone(old)
                   THEN /\ new.k = "num"
                        /\ RandomLow * Scale <= new.n
                        /\ new.n <= RandomHigh * Scale
                   ELSE new = old

\* C4 witness: a placeholder record for a row with one None and one
\* populated cell.
C4_Witness ==
    /\ Returned /\ path = "placeholder"
    /\ \E i \in 1..Len(template_json) :
         /\ \E j \in 1..Len(template_json[i][2].d) : IsNone(template_json[i][2].d[j][2])
         /\ \E j \in 1..Len(template_json[i][2].d) : ~IsNone(template_json[i][2].d[j][2])

\* C5: the placeholder record has the row-identifiers of the input record
\* and, row by row, the column names of the input row.
C5_PlaceholderShape ==
    (Returned /\ path = "placeholder") =>
        /\ RowNames(generated) = RowNames(template_json)
        /\ \A i \in 1..Len(template_json) :
             /\ Has(generated, template_json[i][1])
             /\ ColNames(Get(generated, template_json[i][1])) = ColNames(template_json[i][2])

\* C5 witness: a placeholder record for a template with a row that is no
\* dict beside a dict row with a None cell.
C5_Witness ==
    /\ Returned /\ path = "placeholder"
    /\ \E i \in 1..Len(template_json) : ~template_json[i][2].isdict
    /\ \E i \in 1..Len(template_json) :
         \E j \in 1..Len(template_json[i][2].d) : IsNone(template_json[i][2].d[j][2])

\* C6: on the success path a template row the model named comes back with
\* the values of the model's item of that name (the last one, should the
\* list name it twice); a template row the model left out comes back with
\* every column name of the template row mapped to None.
C6_Reconciliation ==
    (Returned /\ path = "reconciled") =>
        \A i \in 1..Len(template_json) :
            LET out == Get(generated, template_json[i][1])
            IN IF ItemsFor(i) # {}
               THEN out = response.items[Max(ItemsFor(i))].values
               ELSE /\ ColNames(out) = ColNames(template_json[i][2])
                    /\ \A j \in 1..Len(out.d) : IsNone(out.d[j][2])

\* C6 witness: a reconciled record with one row taken from the model and
\* one populated template row the model left out.
C6_Witness ==
    /\ Returned /\ path = "reconciled"
    /\ \E i \in 1..Len(template_json) :
         /\ ItemsFor(i) # {}
         /\ response.items[Max(ItemsFor(i))].values.isdict
    /\ \E i \in 1..Len(template_json) :
         /\ ItemsFor(i) = {}
         /\ \E j \in 1..Len(template_json[i][2].d) : ~IsNone(template_json[i][2].d[j][2])

(***************************************************************************)
(* Properties of the normalizer and the rehydrator.                        *)
(***************************************************************************)
Saved == gpc = "saved"

Cells(w) == (1..w.nr) \X (1..w.nc)

\* the header row is row 1, the identifier column is column 1, and no row
\* or column of the sheet is blank
PlainTemplate(w) ==
    /\ header_row_idx(w) = 1
    /\ row_name_col(w, 1) = 1
    /\ \A r \in 1..w.nr : \E c \in 1..w.nc : ~IsNone(w.cell[<<r, c>>])
    /\ \A c \in 1..w.nc : \E r \in 1..w.nr : ~IsNone(w.cell[<<r, c>>])

\* the column names of the first entry of a record
FirstEntryCols(jd) == IF jd = <<>> THEN {} ELSE ColNames(jd[1][2])

\* C7 (checked under SpecRoundTrip): rehydrating a template with its own
\* normalized record leaves every populated cell of the template with its
\* original value.
C7_RoundTripKeepsPopulatedCells ==
    Saved => \A p \in Cells(ws) :
                ~IsNone(ws.cell[p]) => out_ws.cell[p] = ws.cell[p]

\* C8 as stated (checked under SpecRehydrate): on a plain template, for any
\* record, the cells written are exactly the cells (r, c) with r in the
\* template's row mapping, c among the template's header columns, and some
\* entry of the record that resolves to r holding a column name that
\* matches the header of c; every other cell is unchanged.
C8_WritesEveryPairOfRecordAndTemplate ==
    (Saved /\ PlainTemplate(ws)) =>
        LET rm == row_mapping(json_data, ws)
            hc == column_headers(ws, 1, 1)
        IN /\ written =
                {p \in Cells(ws) :
                    /\ p[2] \in hc
                    /\ \E i \in 1..Len(json_data) :
                         /\ json_data[i][2].isdict
                         /\ find_row(rm, json_data[i][1]) = p[1]
                         /\ \E jc \in ColNames(json_data[i][2]) :
                              col_matches(ws.cell[<<1, p[2]>>], jc)}
           /\ \A p \in Cells(ws) \ written : out_ws.cell[p] = ws.cell[p]

\* C8 amended: on a plain template, for any record, the column mapping
\* holds column names of the record's first entry only, each mapped to a
\* header column whose header it matches; the cells written are exactly the
\* cells (r, c) for which some entry of the record resolves to r in the row
\* mapping and holds a column name that the column mapping maps to c; every
\* other cell is unchanged.
C8_WritesMappedFirstEntryColumns ==
    (Saved /\ PlainTemplate(ws)) =>
        LET rm == row_mapping(json_data, ws)
            cm == col_mapping(json_data, ws, set_order)
        IN /\ Keys(cm) \subseteq FirstEntryCols(json_data)
           /\ \A jc \in Keys(cm) :
                /\ Get(cm, jc) \in column_headers(ws, 1, 1)
                /\ col_matches(ws.cell[<<1, Get(cm, jc)>>], jc)
           /\ written =
                {p \in Cells(ws) :
                    \E i \in 1..Len(json_data) :
                       /\ json_data[i][2].isdict
                       /\ find_row(rm, json_data[i][1]) = p[1]
                       /\ \E jc \in ColNames(json_data[i][2]) \cap FirstEntryCols(json_data) :
                            Has(cm, jc) /\ Get(cm, jc) = p[2]}
           /\ \A p \in Cells(ws) \ written : out_ws.cell[p] = ws.cell[p]

\* C8 witness: a plain template filled from a record of two entries, both
\* resolved to template rows, the second holding a column name that the
\* first lacks and that matches a header of the template.
C8_Witness ==
    /\ Saved /\ PlainTemplate(ws)
    /\ Len(json_data) = 2
    /\ written # {}
    /\ find_row(row_mapping(json_data, ws), json_data[2][1]) # 0
    /\ \E jc \in ColNames(json_data[2][2]) \ FirstEntryCols(json_data) :
         \E c \in column_headers(ws, 1, 1) : col_matches(ws.cell[<<1, c>>], jc)

\* s without one trailing '.0'
strip_trailing_dot0(s) ==
    IF Len(s) >= 2 /\ s[Len(s) - 1] = "." /\ s[Len(s)] = "0"
    THEN SubSeq(s, 1, Len(s) - 2)
    ELSE s

\* a header and a column name match: equal normalized names, or equal after
\* stripping a trailing '.0'
NamesMatch(hv, jc) ==
    LET nt == normalize_col_name(hv)
        nj == normalize_col_name(Str(jc))
    IN nt = nj \/ strip_trailing_dot0(nt) = strip_trailing_dot0(nj)

\* the identifier of sheet row r matches a row-identifier of the record
\* (trimmed, in any case)
RowMatched(r) ==
    LET id == CellAt(ws, r, row_name_col(ws, header_row_idx(ws)))
    IN /\ ~IsNone(id)
       /\ \E i \in 1..Len(json_data) :
            lower(json_data[i][1]) = lower(strip(PyStr(id)))

\* the header of sheet column c matches a column name of the record
ColMatched(c) ==
    LET hv == CellAt(ws, header_row_idx(ws), c)
    IN /\ ~IsNone(hv)
       /\ \E i \in 1..Len(json_data) :
            \E jc \in ColNames(json_data[i][2]) : NamesMatch(hv, jc)

\* C9 (checked under SpecRehydrate): every cell of a row whose identifier
\* matches no row-identifier of the record, and every cell of a column whose
\* header matches no column name of the record, is unchanged; the saved
\* sheet differs from the template only in matched rows and columns.
C9_UnmatchedRowsAndColumnsUnchanged ==
    Saved => \A p \in Cells(ws) :
                (~RowMatched(p[1]) \/ ~ColMatched(p[2])) => out_ws.cell[p] = ws.cell[p]

\* the data rows of the cleaned grid with a non-empty identifier
IdentifiedRows(w) ==
    LET KR == {r \in 1..w.nr : \E c \in 1..w.nc : ~isna(w.cell[<<r, c>>])}
        KC == {c \in 1..w.nc : \E r \in 1..w.nr : ~isna(w.cell[<<r, c>>])}
    IN {r \in KR : r > Min(KR) /\ ~isna(w.cell[<<r, Min(KC)>>])}

FirstCol(w) == Min({c \in 1..w.nc : \E r \in 1..w.nr : ~isna(w.cell[<<r, c>>])})

NonEmptySheet(w) == \E p \in Cells(w) : ~isna(w.cell[p])

\* C10 as stated (checked under SpecRoundTrip): for a non-empty template the
\* record has as many entries as the cleaned grid has data rows with a
\* non-empty identifier.
C10_EntriesEqualIdentifiedRows ==
    (gpc = "normalized" /\ NonEmptySheet(ws)) =>
        Len(normalized.rec) = Cardinality(IdentifiedRows(ws))

\* C10 amended: for a non-empty template on which the normalizer returns,
\* the record has as many entries as there are distinct identifiers (as
\* strings) among the data rows with a non-empty identifier: rows that share
\* an identifier make one entry.
C10_EntriesEqualDistinctIdentifiers ==
    (gpc = "normalized" /\ NonEmptySheet(ws)) =>
        \E infer \in BOOLEAN :
            Len(normalized.rec) =
                Cardinality({label_str(ws.cell[<<r, FirstCol(ws)>>], index_as_float(ws, infer)) :
                                r \in IdentifiedRows(ws)})

\* C10 witness: two data rows carry the same identifier and the record has
\* one entry.
C10_Witness ==
    /\ gpc = "normalized" /\ NonEmptySheet(ws)
    /\ Len(normalized.rec) = 1
    /\ \E r1, r2 \in IdentifiedRows(ws) :
         r1 # r2 /\ ws.cell[<<r1, FirstCol(ws)>>] = ws.cell[<<r2, FirstCol(ws)>>]

\* the columns of the cleaned grid after the identifier column
DataCols(w) ==
    LET KC == {c \in 1..w.nc : \E r \in 1..w.nr : ~isna(w.cell[<<r, c>>])}
    IN KC \ {Min(KC)}

\* the header row of the cleaned grid
HeaderRow(w) == Min({r \in 1..w.nr : \E c \in 1..w.nc : ~isna(w.cell[<<r, c>>])})

\* C11 (checked under SpecRoundTrip): every row of the record produced by
\* the normalizer has as column names exactly the non-empty header cells of
\* the data columns; an empty header cell over a non-empty column gives no
\* column name.
C11_ColumnNamesAreNonEmptyHeaders ==
    gpc = "normalized" =>
        \E infer \in BOOLEAN :
            \A i \in 1..Len(normalized.rec) :
                ColNames(normalized.rec[i][2]) =
                    {label_str(ws.cell[<<HeaderRow(ws), c>>], label_as_float(ws, infer, c)) :
                        c \in {k \in DataCols(ws) : ~isna(ws.cell[<<HeaderRow(ws), k>>])}}

\* C11 witness: an empty header cell over a column that holds a value, in a
\* grid the normalizer returns a record for.
C11_Witness ==
    /\ gpc = "normalized" /\ normalized.rec # <<>>
    /\ \E c \in DataCols(ws) : isna(ws.cell[<<HeaderRow(ws), c>>])

\* the rows of the grid that hold a value
NonBlankRows(w) == {r \in 1..w.nr : \E c \in 1..w.nc : ~isna(w.cell[<<r, c>>])}

\* C12 (checked under SpecRoundTrip): for a grid with no cell set, and for
\* a grid with a header row and no data row, the normalizer returns the
\* empty record and does not raise.
C12_EmptyAndHeaderOnlyGiveEmptyRecord ==
    (gpc \in {"normalized", "failed"} /\ Cardinality(NonBlankRows(ws)) <= 1) =>
        /\ gpc = "normalized"
        /\ normalized.rec = <<>>

\* the header row, the identifier column and the header columns the
\* rehydrator detects in the template
Hdr == header_row_idx(ws)

IdCol == row_name_col(ws, Hdr)

HeaderCols == IF Hdr = 0 THEN {} ELSE column_headers(ws, Hdr, IdCol)

\* the entries of the record that are dicts, resolve to sheet row r and hold
\* the column name jc
EntriesAt(r, jc) ==
    {i \in 1..Len(json_data) :
        /\ json_data[i][2].isdict
        /\ find_row(row_mapping(json_data, ws), json_data[i][1]) = r
        /\ jc \in ColNames(json_data[i][2])}

\* header column c and column name jc of the first entry match each other
\* and nothing else
OnlyMatch(c, jc) ==
    /\ \A c2 \in HeaderCols \ {c} : ~col_matches(ws.cell[<<Hdr, c2>>], jc)
    /\ \A jc2 \in FirstEntryCols(json_data) \ {jc} : ~col_matches(ws.cell[<<Hdr, c>>], jc2)

\* C13 (checked under SpecRehydrate): a numeric header n and a column name
\* of the record's first entry that is str(n) with or without a trailing
\* '.0' (2024 and "2024.0" or "2024"), the two matching nothing else: the
\* column name is mapped to that header's column, and every entry that
\* resolves to a template row writes its value of that name there.
C13_NumericHeaderMatchesBothSpellings ==
    Saved =>
        \A c \in HeaderCols :
            LET hv == ws.cell[<<Hdr, c>>]
                cm == col_mapping(json_data, ws, set_order)
            IN (hv.k = "num" /\ hv.n % Scale = 0) =>
                 \A jc \in FirstEntryCols(json_data) \cap {IntStr(hv.n), FloatStr(hv.n)} :
                    OnlyMatch(c, jc) =>
                        /\ Has(cm, jc) /\ Get(cm, jc) = c
                        /\ \A r \in (Hdr + 1)..ws.nr :
                             EntriesAt(r, jc) # {} =>
                                /\ <<r, c>> \in written
                                /\ out_ws.cell[<<r, c>>] =
                                     Get(json_data[Max(EntriesAt(r, jc))][2].d, jc)

\* C13 witness: the header 2024 is a number, the record's first entry names
\* the column "2024.0", and a row of the template got the record's value.
C13_Witness ==
    /\ Saved
    /\ \E c \in HeaderCols :
         /\ ws.cell[<<Hdr, c>>] = Num(2024 * Scale)
         /\ c2024f \in FirstEntryCols(json_data)
         /\ OnlyMatch(c, c2024f)
         /\ \E r \in (Hdr + 1)..ws.nr :
              /\ EntriesAt(r, c2024f) # {}
              /\ out_ws.cell[<<r, c>>] = Num(7 * Scale)
              /\ ws.cell[<<r, c>>] # Num(7 * Scale)

\* C14 (checked under SpecRehydrate): when the argument is empty or no
\* mapping, and when the template has no non-blank row, the output holds
\* the cells of the template and nothing was written.
C14_CopiesTemplateVerbatim ==
    (/\ gpc \in {"copied", "saved"}
     /\ \/ json_data = <<>>
        \/ ~json_is_mapping
        \/ \A p \in Cells(ws) : ~nonblank(ws.cell[p]))
        => /\ out_ws = ws
           /\ written = {}

\* C14 witness: the argument is a list whose item names a row and a column
\* of the template with a value that differs from the template's.
C14_Witness ==
    /\ gpc = "copied" /\ ~json_is_mapping
    /\ json_data[1][2].isdict
    /\ find_row(row_mapping(json_data, ws), json_data[1][1]) # 0
    /\ \E jc \in ColNames(json_data[1][2]) :
         /\ Get(json_data[1][2].d, jc) = Num(7 * Scale)
         /\ \E c \in HeaderCols : col_matches(ws.cell[<<Hdr, c>>], jc)

DictEntries == {i \in 1..Len(template_json) : template_json[i][2].isdict}

\* the property names of a schema
SchemaProperties(sc) ==
    sc.root \cup sc.item \cup {sc.values[j][1] : j \in 1..Len(sc.values)}

\* C16 (checked under SpecAdapter): the schema built for the call has as
\* 'values' properties exactly the column names of the first entry of the
\* record that is a dict, each a nullable number, all of them required; a
\* row-identifier is a property name only where it is one of those column
\* names or of the schema's own three names; a record with no dict entry
\* gives the open schema.
C16_SchemaFromFirstDictEntry ==
    calls = 1 =>
        IF DictEntries = {} THEN json_schema = OpenSchema
        ELSE LET d == template_json[Min(DictEntries)][2].d
             IN /\ ~json_schema.open
                /\ {json_schema.values[j][1] : j \in 1..Len(json_schema.values)} = Keys(d)
                /\ Len(json_schema.values) = Len(d)
                /\ \A j \in 1..Len(json_schema.values) :
                     json_schema.values[j][2] = NullableNumber
                /\ {json_schema.required[j] : j \in 1..Len(json_schema.required)} = Keys(d)
                /\ \A r \in RowNames(template_json) :
                     r \in SchemaProperties(json_schema)
                        => r \in Keys(d) \cup {pFinancialData, pRowName, pValues}

\* C16 witness: the first entry of the record is no dict and the second is
\* a dict with two columns, which the schema holds.
C16_Witness ==
    /\ calls = 1
    /\ Len(template_json) = 2
    /\ ~template_json[1][2].isdict
    /\ template_json[2][2].isdict
    /\ Len(json_schema.values) = 2

\* C17 (checked under SpecRehydrate): the rehydrator empties no populated
\* cell of the template; a null of the record leaves the cell it resolves
\* to as it was.
C17_NullNeverClearsCell ==
    Saved => \A p \in Cells(ws) : ~IsNone(ws.cell[p]) => ~IsNone(out_ws.cell[p])

\* the model's items whose row_name is the name of template row i but for
\* case or surrounding blanks
NearMisses(i) ==
    {k \in 1..Len(response.items) :
        /\ response.items[k].name.k = "str"
        /\ response.items[k].name # Str(template_json[i][1])
        /\ lower(strip(response.items[k].name.s)) = lower(strip(template_json[i][1]))}

\* C18 (checked under SpecAdapter): row names are matched as exact strings.
\* A template row that the model named only with another case or with
\* surrounding blanks comes back as the all-null row with the template
\* row's columns (None for a template row that is no dict), and none of
\* those items' values is used.
C18_ExactRowNameMatchOnly ==
    (Returned /\ path = "reconciled") =>
        \A i \in 1..Len(template_json) :
            (NearMisses(i) # {} /\ ItemsFor(i) = {}) =>
                LET out == Get(generated, template_json[i][1])
                IN /\ out.isdict = template_json[i][2].isdict
                   /\ ColNames(out) = ColNames(template_json[i][2])
                   /\ \A j \in 1..Len(out.d) : IsNone(out.d[j][2])

\* C18 witness: the model named row "A" as "a" or "A " with values, no item
\* is named "A", and the template row has columns.
C18_Witness ==
    /\ Returned /\ path = "reconciled"
    /\ \E i \in 1..Len(template_json) :
         /\ ItemsFor(i) = {}
         /\ template_json[i][2].isdict /\ template_json[i][2].d # <<>>
         /\ \E k \in NearMisses(i) :
              /\ response.items[k].values.isdict
              /\ \E j \in 1..Len(response.items[k].values.d) :
                   ~IsNone(response.items[k].values.d[j][2])

\* the column mapping the run built
ColMap == col_mapping(json_data, ws, set_order)

\* C19 as stated (checked under SpecRehydrate): a column name is mapped to a
\* header only if their normalized strings are equal, or equal after a
\* trailing '.0' is removed from each.
C19_MappedOnlyOnTrailingDot0 ==
    Saved => \A k \in 1..Len(ColMap) :
                NamesMatch(ws.cell[<<Hdr, ColMap[k][2]>>], ColMap[k][1])

\* C19 case: a column name is mapped to a header it matches in neither way
C19_MappedElsewhereDiffering ==
    /\ Saved
    /\ \E k \in 1..Len(ColMap) :
         ~NamesMatch(ws.cell[<<Hdr, ColMap[k][2]>>], ColMap[k][1])

\* the sheet rows below the header that carry an identifier
IdRows == IF Hdr = 0 THEN {} ELSE {r \in (Hdr + 1)..ws.nr : nonblank(ws.cell[<<r, IdCol>>])}

\* the trimmed identifier of sheet row r
TrimmedId(r) == strip(PyStr(ws.cell[<<r, IdCol>>]))

\* the sheet row a row-identifier of the record resolves to, 0 for none:
\* the last row whose trimmed identifier is the name; else the last row
\* carrying the first trimmed identifier that is the name in another case
Resolved(name) ==
    LET exact  == {r \in IdRows : TrimmedId(r) = name}
        nocase == {r \in IdRows : lower(TrimmedId(r)) = lower(name)}
    IN IF exact # {} THEN Max(exact)
       ELSE IF nocase # {}
       THEN Max({r \in IdRows : TrimmedId(r) = TrimmedId(Min(nocase))})
       ELSE 0

\* the cells the write pass is to assign
ResolvedCells ==
    LET cm == ColMap
    IN UNION {LET r == Resolved(json_data[i][1])
              IN IF json_data[i][2].isdict /\ r # 0
                 THEN {<<r, Get(cm, jc)>> :
                          jc \in {x \in ColNames(json_data[i][2]) : Has(cm, x)}}
                 ELSE {} : i \in 1..Len(json_data)}

\* C20 (checked under SpecRehydrate): the write pass resolves each
\* row-identifier of the record by exact match against the trimmed template
\* identifiers, else by case-insensitive match, else skips the row; a column
\* name without a mapping skips only its cell; a run over a record always
\* ends saved, with exactly the resolved cells assigned and every other cell
\* as in the template.
C20_WritePassResolvesOrSkips ==
    /\ (gpc \in {"saved", "copied"} /\ json_is_mapping /\ json_data # <<>>) => Saved
    /\ Saved => LET cells == ResolvedCells
                IN /\ written = cells
                   /\ \A p \in Cells(ws) \ cells : out_ws.cell[p] = ws.cell[p]

\* C20 witness: one row-identifier resolved only by the case-insensitive
\* match and had a cell assigned, another resolved to no row, and a column
\* name of the resolved row had no mapping.
C20_Witness ==
    /\ Saved
    /\ \E i, k \in 1..Len(json_data) :
         /\ json_data[i][2].isdict
         /\ Resolved(json_data[i][1]) # 0
         /\ \A r \in IdRows : TrimmedId(r) # json_data[i][1]
         /\ \E p \in written : p[1] = Resolved(json_data[i][1])
         /\ \E jc \in ColNames(json_data[i][2]) : ~Has(ColMap, jc)
         /\ Resolved(json_data[k][1]) = 0

\* row r of the template has a non-blank cell
RowNonBlank(r) == \E c \in 1..ws.nc : nonblank(ws.cell[<<r, c>>])

\* C21 (checked under SpecRehydrate): the header row is the first row with
\* a non-blank cell; the row-identifier column is column 1 exactly when one
\* of the 9 rows right below the header row has a non-null value in
\* column 1, and column 2 otherwise.
C21_HeaderRowAndIdentifierColumn ==
    Saved =>
        IF hdr_row = 0 THEN \A r \in 1..ws.nr : ~RowNonBlank(r)
        ELSE /\ hdr_row \in 1..ws.nr
             /\ RowNonBlank(hdr_row)
             /\ \A r \in 1..(hdr_row - 1) : ~RowNonBlank(r)
             /\ name_col \in {1, 2}
             /\ name_col = 1 <=>
                   \E r \in 1..ws.nr :
                       /\ hdr_row < r /\ r <= hdr_row + 9
                       /\ ~IsNone(ws.cell[<<r, 1>>])

\* C21 witness: the header is not the first row, column 1 first holds a
\* value 10 or more rows below it, the run took column 2 and wrote a cell.
C21_Witness ==
    /\ Saved /\ hdr_row > 1 /\ name_col = 2
    /\ \E r \in 1..ws.nr : r >= hdr_row + 10 /\ ~IsNone(ws.cell[<<r, 1>>])
    /\ written # {}

\* the data rows of the cleaned grid: the rows after the header row that
\* hold a value and whose identifier is not empty
DataRows(w) == {r \in NonBlankRows(w) : r > HeaderRow(w) /\ ~isna(w.cell[<<r, FirstCol(w)>>])}

\* the grid has two data rows with one identifier, or two data columns with
\* one non-empty header
HasDuplicateKeys(w) ==
    \/ \E r1, r2 \in DataRows(w) :
         r1 < r2 /\ w.cell[<<r1, FirstCol(w)>>] = w.cell[<<r2, FirstCol(w)>>]
    \/ \E c1, c2 \in DataCols(w) :
         /\ c1 < c2 /\ ~isna(w.cell[<<HeaderRow(w), c1>>])
         /\ w.cell[<<HeaderRow(w), c1>>] = w.cell[<<HeaderRow(w), c2>>]

\* the record holds, under the names of row r and column c, the cell of the
\* last row and the last column that give these names
LastWriteWins(w, rec, infer) ==
    LET rk(r) == label_str(w.cell[<<r, FirstCol(w)>>], index_as_float(w, infer))
        ck(c) == label_str(w.cell[<<HeaderRow(w), c>>], label_as_float(w, infer, c))
    IN \A r \in DataRows(w) : \A c \in DataCols(w) :
          LET lr == Max({q \in DataRows(w) : rk(q) = rk(r)})
              lc == Max({q \in DataCols(w) : ck(q) = ck(c)})
              v  == w.cell[<<lr, lc>>]
          IN /\ Has(rec, rk(r))
             /\ Get(rec, rk(r)).isdict
             /\ Has(Get(rec, rk(r)).d, ck(c))
             /\ Get(Get(rec, rk(r)).d, ck(c)) = IF isna(v) THEN None ELSE v

\* C22 (checked under SpecRoundTrip): on a grid with two data rows of one
\* identifier, or two data columns of one header, the normalizer does not
\* raise, and the record holds the values of the later row and of the later
\* column.
C22_DuplicateKeysLastWriteWins ==
    (gpc \in {"normalized", "failed"} /\ ws # NoWs /\ NonEmptySheet(ws)
        /\ HasDuplicateKeys(ws)) =>
        /\ gpc = "normalized"
        /\ \E infer \in BOOLEAN : LastWriteWins(ws, normalized.rec, infer)

\* C22 case: two data columns carry the header of the first column, and the
\* normalizer raised
C22_RaisedOnRepeatedHeader ==
    /\ gpc = "failed"
    /\ \E c1, c2 \in DataCols(ws) :
         /\ c1 < c2 /\ ~isna(ws.cell[<<HeaderRow(ws), c1>>])
         /\ ws.cell[<<HeaderRow(ws), c1>>] = ws.cell[<<HeaderRow(ws), c2>>]
         /\ ws.cell[<<HeaderRow(ws), c1>>] = ws.cell[<<HeaderRow(ws), FirstCol(ws)>>]

\* the last-write rule on the grids the normalizer returns a record for
LastWriteWinsWhenReturned ==
    (gpc = "normalized" /\ NonEmptySheet(ws) /\ HasDuplicateKeys(ws)) =>
        \E infer \in BOOLEAN : LastWriteWins(ws, normalized.rec, infer)

\* the grid without its row r, and without its column c
RemoveRow(w, r) ==
    Ws(w.nr - 1, w.nc,
       [p \in (1..(w.nr - 1)) \X (1..w.nc) |->
          w.cell[<<IF p[1] < r THEN p[1] ELSE p[1] + 1, p[2]>>]])

RemoveCol(w, c) ==
    Ws(w.nr, w.nc - 1,
       [p \in (1..w.nr) \X (1..(w.nc - 1)) |->
          w.cell[<<p[1], IF p[2] < c THEN p[2] ELSE p[2] + 1>>]])

\* every cell of row r, of column c, is unset
UnsetRow(w, r) == \A c \in 1..w.nc : IsNone(w.cell[<<r, c>>])

UnsetCol(w, c) == \A r \in 1..w.nr : IsNone(w.cell[<<r, c>>])

\* the cell holds 0 or the empty string
ZeroOrEmpty(v) == v = Num(0) \/ v = Str(<<>>)

\* the outcome for the grid is the outcome for the grid w2
SameOutcome(w2) ==
    \E infer \in BOOLEAN :
        normalized = excel_to_json(ws, infer) /\ normalized = excel_to_json(w2, infer)

\* C23 (checked under SpecRoundTrip): the outcome of the normalizer for a
\* grid with a row, or a column, of unset cells is its outcome for the grid
\* without that row or column; a row or column with a cell that holds 0 or
\* the empty string is kept by the two dropna steps.
C23_BlankRowsAndColumnsIgnored ==
    (gpc \in {"normalized", "failed"} /\ ws # NoWs) =>
        /\ \A r \in 1..ws.nr : UnsetRow(ws, r) => SameOutcome(RemoveRow(ws, r))
        /\ \A c \in 1..ws.nc : UnsetCol(ws, c) => SameOutcome(RemoveCol(ws, c))
        /\ \A p \in Cells(ws) :
              ZeroOrEmpty(ws.cell[p]) =>
                  /\ \E i \in 1..Len(kept_rows(ws)) : kept_rows(ws)[i] = p[1]
                  /\ \E i \in 1..Len(kept_cols(ws)) : kept_cols(ws)[i] = p[2]

\* C23 case: the grid has an unset row, and the record returned for it is
\* not the record of the grid without that row
C23_UnsetRowChangedRecord ==
    /\ gpc = "normalized"
    /\ \E r \in 1..ws.nr :
         /\ UnsetRow(ws, r)
         /\ \A infer \in BOOLEAN :
              /\ excel_to_json(RemoveRow(ws, r), infer).ok
              /\ excel_to_json(RemoveRow(ws, r), infer) # normalized

\* the first two parts of C23 alone
UnsetRowsAndColumnsIgnored ==
    (gpc \in {"normalized", "failed"} /\ ws # NoWs) =>
        /\ \A r \in 1..ws.nr : UnsetRow(ws, r) => SameOutcome(RemoveRow(ws, r))
        /\ \A c \in 1..ws.nc : UnsetCol(ws, c) => SameOutcome(RemoveCol(ws, c))

\* the last part of C23 alone
ZeroAndEmptyStringKept ==
    (gpc \in {"normalized", "failed"} /\ ws # NoWs) =>
        \A p \in Cells(ws) :
            ZeroOrEmpty(ws.cell[p]) =>
                /\ \E i \in 1..Len(kept_rows(ws)) : kept_rows(ws)[i] = p[1]
                /\ \E i \in 1..Len(kept_cols(ws)) : kept_cols(ws)[i] = p[2]

\* the structure cells of the template: the header row and the rows above
\* it, the identifier column and the columns left of it
StructureCells == {p \in Cells(ws) : p[1] <= hdr_row \/ p[2] <= name_col}

\* C24 (checked under SpecRehydrate): every cell the rehydrator writes lies
\* below the detected header row and right of the detected identifier
\* column, and every structure cell of the output is the template's.
C24_StructureCellsUnchanged ==
    (gpc \in {"saved", "copied"}) =>
        /\ \A p \in written : p[1] > hdr_row /\ p[2] > name_col
        /\ \A p \in StructureCells : out_ws.cell[p] = ws.cell[p]

\* C24 witness: a run that changed a cell of a sheet with a row above the
\* header row, a value in that row, and a column left of the identifier
\* column.
C24_Witness ==
    /\ Saved /\ hdr_row = 2 /\ name_col = 2
    /\ ~IsNone(ws.cell[<<1, 1>>])
    /\ \E p \in written : out_ws.cell[p] # ws.cell[p]

\* the column names of the first entry of the record; none when that entry
\* is no dict
SampleCols == IF json_data[1][2].isdict THEN ColNames(json_data[1][2]) ELSE {}

\* C25 (checked under SpecRehydrate): every cell the rehydrator writes
\* holds a value that an entry stores under a column name of the record's
\* first entry matching the cell's header; when the first entry is no dict
\* nothing is written.
C25_ColumnsOfFirstEntryOnly ==
    Saved =>
        /\ ~json_data[1][2].isdict => (written = {} /\ out_ws.cell = ws.cell)
        /\ \A p \in written :
              \E i \in 1..Len(json_data) :
                  /\ json_data[i][2].isdict
                  /\ \E jc \in ColNames(json_data[i][2]) \cap SampleCols :
                       /\ col_matches(ws.cell[<<hdr_row, p[2]>>], jc)
                       /\ out_ws.cell[p] = Get(json_data[i][2].d, jc)

\* C25 witness: a later entry resolves to a sheet row and stores a value
\* under a column name that the first entry lacks and a header matches; the
\* cell is not written, while a cell of the first entry's columns is.
C25_Witness ==
    /\ Saved /\ written # {}
    /\ \E i \in 2..Len(json_data) :
         /\ json_data[i][2].isdict
         /\ Resolved(json_data[i][1]) # 0
         /\ \E jc \in ColNames(json_data[i][2]) \ SampleCols :
              /\ ~IsNone(Get(json_data[i][2].d, jc))
              /\ \E c \in HeaderCols :
                   /\ col_matches(ws.cell[<<Hdr, c>>], jc)
                   /\ \A k \in SampleCols : ~col_matches(ws.cell[<<Hdr, c>>], k)
                   /\ <<Resolved(json_data[i][1]), c>> \notin written

\* C25 case of a first entry that is no dict, before a dict whose columns
\* match headers
C25_FirstEntryNoDict ==
    /\ Saved /\ ~json_data[1][2].isdict
    /\ \E i \in 2..Len(json_data) :
         /\ json_data[i][2].isdict /\ Resolved(json_data[i][1]) # 0
         /\ \E jc \in ColNames(json_data[i][2]) : \E c \in HeaderCols :
              col_matches(ws.cell[<<Hdr, c>>], jc)

\* C26 as stated (checked under SpecAdapter): in the record the adapter
\* returns, the row of every template row that is a dict is a dict with the
\* template row's column names.
C26_OutputHasTemplateShape ==
    Returned =>
        \A i \in 1..Len(template_json) :
            template_json[i][2].isdict =>
                /\ Has(generated, template_json[i][1])
                /\ Get(generated, template_json[i][1]).isdict
                /\ ColNames(Get(generated, template_json[i][1])) = ColNames(template_json[i][2])

\* C26 case: the model returned null as the values of a row that is a dict
\* in the template, and the record returned holds null for that row
C26_NullValuesReturned ==
    /\ Returned /\ path = "reconciled"
    /\ \E i \in 1..Len(template_json) :
         /\ template_json[i][2].isdict
         /\ ItemsFor(i) # {}
         /\ ~Get(generated, template_json[i][1]).isdict

(***************************************************************************)
(* Properties of the job and the server (checked under SpecJob and         *)
(* SpecService).                                                           *)
(***************************************************************************)
\* the run has downloaded a file
HasDownloaded(j) == jpc[j] \in {"template", "pdfs", "converted", "uploaded"}

\* C27 (checked under SpecJob): a run that has downloaded a file has set
\* the status before (the status is no longer 'pending'); a request whose
\* status is 'completed' has its blob <request_id>/solution.xlsx in the
\* bucket and that path in solution_blob_path.
C27_CompletedImpliesSolutionStored ==
    /\ \A j \in Jobs : HasDownloaded(j) => docs[jrid[j]].status # "pending"
    /\ \A rid \in RequestIds :
          (docs[rid].exists /\ docs[rid].status = "completed") =>
              /\ SolutionBlob(rid) \in blobs
              /\ docs[rid].solution_blob_path = SolutionBlob(rid)

\* C27 witness: a run ended with code 0 and its request is 'completed'.
C27_Witness ==
    \E j \in Jobs :
        /\ jpc[j] = "exited" /\ jexit[j] = 0
        /\ docs[jrid[j]].status = "completed"

\* the run is inside the try block of process_request (lines 555-635)
InTry(j) == jpc[j] \in {"processing", "template", "pdfs", "converted", "uploaded"}

\* what a step of run j does when something raised, and when the run ends
ErrorHandling(j) ==
    /\ \* a run leaves the try block through the except clause, or by
       \* setting 'completed' and ending with code 0
       (InTry(j) /\ jpc'[j] = "exited") =>
           /\ jpc[j] = "uploaded" /\ jexit'[j] = 0
           /\ docs'[jrid[j]].status = "completed"
    /\ \* the except clause sets 'failed' and the error text, unless the
       \* update raises, and the run ends with code 1
       (jpc[j] = "except" /\ jpc'[j] # "except") =>
           /\ jpc'[j] = "exited" /\ jexit'[j] = 1
           /\ jupd'[j] \in {"ok", "raised"}
           /\ jupd'[j] = "ok" =>
                 /\ docs'[jrid[j]].status = "failed"
                 /\ docs'[jrid[j]].error = jerr[j]
    /\ \* a run that ends after it set 'processing' does not leave that
       \* status, unless its update raised
       ((InTry(j) \/ jpc[j] = "except") /\ jpc'[j] = "exited") =>
           (docs'[jrid[j]].status # "processing" \/ jupd'[j] = "raised")
    /\ \* an id that is not in the store: the run ends with code 1 and no
       \* document is touched
       (jpc[j] = "start" /\ ~docs[jrid[j]].exists /\ jpc'[j] # "start") =>
           /\ jpc'[j] = "exited" /\ jexit'[j] = 1
           /\ docs' = docs

\* C28 (checked under SpecJob): when a step after 'processing' raises, the
\* status is set to 'failed' with the error text and the run ends with
\* code 1; a run that ends leaves the status at 'processing' only when the
\* status update itself raised; an unknown request id ends the run with
\* code 1 before any update.
C28_FailureSetsFailedAndExitsOne == [][\A j \in Jobs : ErrorHandling(j)]_vars

\* C28 witness: a run found no template blob path in its request, the
\* status of the request is 'failed' with that text, the exit code is 1.
C28_Witness ==
    \E j \in Jobs :
        /\ jpc[j] = "exited" /\ jexit[j] = 1 /\ jupd[j] = "ok"
        /\ jerr[j] = "Template blob path not found in request"
        /\ docs[jrid[j]].status = "failed"
        /\ docs[jrid[j]].error = jerr[j]

\* the place of a status in pending -> processing -> completed or failed
StatusRank(st) == IF st = "pending" THEN 1 ELSE IF st = "processing" THEN 2 ELSE 3

\* a step moves the status of request rid forward or leaves it
MovesForward(rid) ==
    docs[rid].exists =>
        /\ docs[rid].status \in {"completed", "failed"} => docs'[rid].status = docs[rid].status
        /\ StatusRank(docs'[rid].status) >= StatusRank(docs[rid].status)

\* run j is processing its request
Processing(j) == InTry(j) \/ jpc[j] = "except"

\* no two runs are processing one request
OneRunPerRequest ==
    \A j1, j2 \in Jobs : (j1 # j2 /\ Processing(j1) /\ Processing(j2)) => jrid[j1] # jrid[j2]

\* C29 as stated (checked under SpecJob): the status of a request only
\* moves forward and never leaves 'completed' or 'failed', and no two runs
\* process one request at the same time.
C29_StatusOnlyMovesForward ==
    [][\A rid \in RequestIds : MovesForward(rid)]_vars /\ []OneRunPerRequest

\* C29 case: a run ended with code 0 ('completed'), and the status of its
\* request is 'processing' again
C29_CompletedBackToProcessing ==
    \E j1, j2 \in Jobs :
        /\ j1 # j2 /\ jrid[j1] = jrid[j2]
        /\ jpc[j1] = "exited" /\ jexit[j1] = 0
        /\ Processing(j2)
        /\ docs[jrid[j1]].status = "processing"

\* C29 case: two runs are processing one request
C29_TwoRunsOfOneRequest == ~OneRunPerRequest

\* the response r of download_output to caller for request rid, against the
\* store and the bucket it was computed from
ServedRightly(caller, rid, r) ==
    /\ r.code = 200 =>
          /\ docs[rid].exists
          /\ docs[rid].user_email = caller
          /\ docs[rid].status \in {"complete", "completed"}
          /\ r.content \in blobs
          /\ r.content.dir = rid
    /\ r.code # 200 =>
          /\ r.content = NoBlob
          /\ r.code \in {400, 401, 403, 404}
    /\ (caller # Anonymous /\ ~docs[rid].exists) => r.code = 404
    /\ (caller # Anonymous /\ docs[rid].exists /\ docs[rid].user_email # caller) => r.code = 403
    /\ (docs[rid].exists /\ docs[rid].user_email = caller
          /\ docs[rid].status \notin {"complete", "completed"}) => r.code = 400

\* C30 (checked under SpecService): download_output returns file content
\* only for an existing request of the caller whose status is complete or
\* completed, and then the content of a blob under <request_id>/; in the
\* other cases it answers 404, 403 or 400 (401 without a valid token) with
\* no file content.
C30_DownloadServesOwnSolutionOnly ==
    [][\A caller \in Users \cup {Anonymous}, rid \in RequestIds :
          Download(caller, rid) => ServedRightly(caller, rid, reply')]_vars

\* C30 witness: a solution was served while the bucket holds a blob
\* solution.xlsx outside every request's folder and a request of another
\* user exists.
C30_Witness ==
    /\ reply.code = 200
    /\ reply.content \in {SolutionBlob(rid) : rid \in RequestIds}
    /\ Blob(0, 0, "solution.xlsx") \in blobs
    /\ \E rid \in RequestIds :
         docs[rid].exists /\ docs[rid].user_email # docs[reply.content.dir].user_email

====
